---------------------------- MODULE Spec2Model ----------------------------
(***************************************************************************)
(* Model of the legal-document chunker of LegalRAG                         *)
(* (src/app/rag/chunking.py, src/app/rag/text_processing.py).              *)
(*                                                                         *)
(* A Python str is a sequence of characters; a character is a one-symbol   *)
(* token.  ASCII characters stand for themselves.  The module is ASCII, so *)
(* the other characters of the source are written with these tokens:       *)
(*   "schwa"/"SCHWA"   U+0259 / U+018F      "ouml"/"OUML"   o/O diaeresis  *)
(*   "uuml"/"UUML"     u/U diaeresis        "gbreve"/"GBREVE"              *)
(*   "ccedil"/"CCEDIL" "scedil"/"SCEDIL"    "idotless" U+0131              *)
(*   "IDOT" U+0130     "ndash" U+2013       "mdash" U+2014                 *)
(*   "box1" U+2500     "box2" U+2501        "box3" U+2550                  *)
(*   "strike" U+0336   "solidus" U+0337     "longsolidus" U+0338           *)
(*   "cmb353" U+0353   "cmb354" U+0354      "cyr488" U+0488 "cyr489" U+0489*)
(* Python's None is the value None below.                                  *)
(***************************************************************************)
EXTENDS Integers, Sequences, FiniteSets, TLC

None == <<"None">>

----------------------------------------------------------------------------
(* Characters *)

Digit == {"0", "1", "2", "3", "4", "5", "6", "7", "8", "9"}

\* \s of Python's re, on the characters of the model
Space == {" ", "\n", "\t"}

\* lower-case letters: what [A-Z...] and the keyword letters fold to under re.IGNORECASE
AsciiLower == {"a", "b", "c", "d", "e", "f", "g", "h", "i", "j", "k", "l", "m",
               "n", "o", "p", "q", "r", "s", "t", "u", "v", "w", "x", "y", "z"}

FoldMap ==
  [c \in {"A", "B", "C", "D", "E", "F", "G", "H", "I", "J", "K", "L", "M",
          "N", "O", "P", "Q", "R", "S", "T", "U", "V", "W", "X", "Y", "Z",
          "SCHWA", "OUML", "UUML", "GBREVE", "CCEDIL", "SCEDIL", "IDOT", "idotless"} |->
     CASE c = "A" -> "a" [] c = "B" -> "b" [] c = "C" -> "c" [] c = "D" -> "d"
       [] c = "E" -> "e" [] c = "F" -> "f" [] c = "G" -> "g" [] c = "H" -> "h"
       [] c = "I" -> "i" [] c = "J" -> "j" [] c = "K" -> "k" [] c = "L" -> "l"
       [] c = "M" -> "m" [] c = "N" -> "n" [] c = "O" -> "o" [] c = "P" -> "p"
       [] c = "Q" -> "q" [] c = "R" -> "r" [] c = "S" -> "s" [] c = "T" -> "t"
       [] c = "U" -> "u" [] c = "V" -> "v" [] c = "W" -> "w" [] c = "X" -> "x"
       [] c = "Y" -> "y" [] c = "Z" -> "z"
       [] c = "SCHWA" -> "schwa" [] c = "OUML" -> "ouml" [] c = "UUML" -> "uuml"
       [] c = "GBREVE" -> "gbreve" [] c = "CCEDIL" -> "ccedil" [] c = "SCEDIL" -> "scedil"
       \* re.IGNORECASE treats I, i, U+0130 and U+0131 as one letter
       [] c = "IDOT" -> "i" [] c = "idotless" -> "i"]

\* the case-insensitive form of a character (flags=re.IGNORECASE)
Fold(c) == IF c \in DOMAIN FoldMap THEN FoldMap[c] ELSE c

\* (SubSeq makes the result a tuple rather than an unevaluated function)
FoldText(t) == SubSeq([i \in 1..Len(t) |-> Fold(t[i])], 1, Len(t))

----------------------------------------------------------------------------
(* Regular expressions: a pattern is a sequence of elements.  A "lit"        *)
(* element is a literal word; a "cls" element matches characters of a set    *)
(* (or of its complement), once or min-or-more times, greedy or lazy; a      *)
(* "grp" element is (?:body)*.  Positions count from 1.                      *)

One(s)      == [k |-> "cls", s |-> s, neg |-> FALSE, min |-> 1, many |-> FALSE, lazy |-> FALSE]
Plus(s)     == [k |-> "cls", s |-> s, neg |-> FALSE, min |-> 1, many |-> TRUE, lazy |-> FALSE]
Star(s)     == [k |-> "cls", s |-> s, neg |-> FALSE, min |-> 0, many |-> TRUE, lazy |-> FALSE]
NotPlus(s)  == [k |-> "cls", s |-> s, neg |-> TRUE, min |-> 1, many |-> TRUE, lazy |-> FALSE]
\* .*? : any character but a newline, as few as possible
DotLazy     == [k |-> "cls", s |-> {"\n"}, neg |-> TRUE, min |-> 0, many |-> TRUE, lazy |-> TRUE]
GroupStar(body) == [k |-> "grp", body |-> body]
Lit(w)      == <<[k |-> "lit", w |-> w]>>

SetMin(S) == CHOOSE x \in S : \A y \in S : x <= y
SetMax(S) == CHOOSE x \in S : \A y \in S : x >= y

InCls(e, c) == IF e.neg THEN c \notin e.s ELSE c \in e.s

\* how many characters from pos on are in the class of e
Run(e, t, pos) ==
  LET stop == CHOOSE j \in pos..(Len(t) + 1) :
                /\ j = Len(t) + 1 \/ ~InCls(e, t[j])
                /\ \A i \in pos..(j - 1) : InCls(e, t[i])
  IN stop - pos

RECURSIVE MatchEnd(_, _, _)
\* re's backtracking match of pattern p at position pos of t: the position
\* after the match, or 0 when p does not match there
MatchEnd(p, t, pos) ==
  IF p = <<>> THEN pos
  ELSE LET e == Head(p)
           rest == Tail(p)
       IN IF e.k = "lit"
          THEN IF /\ pos + Len(e.w) - 1 <= Len(t)
                  /\ \A i \in 1..Len(e.w) : t[pos + i - 1] = e.w[i]
               THEN MatchEnd(rest, t, pos + Len(e.w)) ELSE 0
          ELSE IF e.k = "grp"
          THEN \* one more round of the body first, then none
               LET r == MatchEnd(e.body \o p, t, pos)
               IN IF r # 0 THEN r ELSE MatchEnd(rest, t, pos)
          ELSE IF ~e.many
          THEN IF pos <= Len(t) /\ InCls(e, t[pos])
               THEN MatchEnd(rest, t, pos + 1) ELSE 0
          ELSE LET run == Run(e, t, pos)
                   \* the repeat counts with which the rest of the pattern matches
                   ok == {n \in e.min..run : MatchEnd(rest, t, pos + n) # 0}
               IN IF ok = {} THEN 0
                  ELSE IF e.lazy THEN MatchEnd(rest, t, pos + SetMin(ok))
                  ELSE MatchEnd(rest, t, pos + SetMax(ok))

\* the characters a match of p can start with, when p starts with a literal or a
\* one-or-more class (every pattern of the source does)
FirstIs(p, c) ==
  LET e == Head(p)
  IN IF e.k = "lit" THEN c = e.w[1] ELSE InCls(e, c)

\* every position of t where p matches
AllStarts(p, t) == {j \in 1..Len(t) : FirstIs(p, t[j]) /\ MatchEnd(p, t, j) # 0}

\* re.search from position pos on: <<start, end>> of the leftmost match, or <<0, 0>>
SearchIn(p, t, S, pos) ==
  LET later == {j \in S : j >= pos}
  IN IF later = {} THEN <<0, 0>>
     ELSE LET j == SetMin(later) IN <<j, MatchEnd(p, t, j)>>

SearchFrom(p, t, pos) == SearchIn(p, t, AllStarts(p, t), pos)

RECURSIVE FindIterIn(_, _, _, _)
FindIterIn(p, ft, S, pos) ==
  LET m == SearchIn(p, ft, S, pos)
  IN IF m[1] = 0 THEN {} ELSE {m[1]} \cup FindIterIn(p, ft, S, m[2])

\* re.finditer: the match starts, left to right, without overlap
FindIter(p, ft) == FindIterIn(p, ft, AllStarts(p, ft), 1)

\* t[from-1 : to-1] of Python, for 1 <= from <= to <= Len(t) + 1
Slice(t, from, to) == SubSeq(t, from, to - 1)

RECURSIVE SubIn(_, _, _, _, _, _)
SubIn(p, repl, t, ft, S, pos) ==
  LET m == SearchIn(p, ft, S, pos)
  IN IF m[1] = 0 THEN Slice(t, pos, Len(t) + 1)
     ELSE Slice(t, pos, m[1]) \o repl \o SubIn(p, repl, t, ft, S, m[2])

\* re.sub(p, repl, t): every match, left to right without overlap, replaced;
\* ft is t as the pattern reads it (case-folded under re.IGNORECASE)
SubAt(p, repl, t, ft, S) == IF S = {} THEN t ELSE SubIn(p, repl, t, ft, S, 1)

\* (the empty text has no match to replace)
SubFrom(p, repl, t, ft) ==
  IF t = <<>> THEN t ELSE SubAt(p, repl, t, ft, AllStarts(p, ft))

\* re.sub(p, repl, t, flags=re.IGNORECASE)
SubI(p, repl, t) == SubFrom(p, repl, t, FoldText(t))
\* re.sub(p, repl, t) of a pattern without letters
Sub(p, repl, t) == SubFrom(p, repl, t, t)

\* str.strip()
Strip(t) ==
  LET n == Len(t)
      first == CHOOSE j \in 1..(n + 1) :
                 /\ j = n + 1 \/ t[j] \notin Space
                 /\ \A i \in 1..(j - 1) : t[i] \in Space
      last == CHOOSE j \in 0..n :
                 /\ j = 0 \/ t[j] \notin Space
                 /\ \A i \in (j + 1)..n : t[i] \in Space
  IN IF first > n THEN <<>> ELSE SubSeq(t, first, last)

----------------------------------------------------------------------------
(* TextNormalizer (src/app/rag/text_processing.py) *)

\* letters separated by \s+, e.g. M\s+a\s+d\s+d\s+<schwa>, under re.IGNORECASE
Spaced(w) ==
  [i \in 1..(2 * Len(w) - 1) |->
     IF i % 2 = 1 THEN One({Fold(w[(i + 1) \div 2])}) ELSE Plus(Space)]

\* the (pattern, replacement) table of fix_spaced_text, in its order
SpacedPatterns == <<
  <<Spaced(<<"M", "a", "d", "d", "schwa">>), <<"M", "a", "d", "d", "schwa">>>>,
  <<Spaced(<<"M", "A", "D", "D", "SCHWA">>), <<"M", "A", "D", "D", "SCHWA">>>>,
  <<Spaced(<<"F", "schwa", "s", "i", "l">>), <<"F", "schwa", "s", "i", "l">>>>,
  <<Spaced(<<"F", "SCHWA", "S", "IDOT", "L">>), <<"F", "SCHWA", "S", "IDOT", "L">>>>,
  <<Spaced(<<"B", "schwa", "n", "d">>), <<"B", "schwa", "n", "d">>>>,
  <<Spaced(<<"B", "SCHWA", "N", "D">>), <<"B", "SCHWA", "N", "D">>>>,
  <<Spaced(<<"H", "i", "s", "s", "schwa">>), <<"H", "i", "s", "s", "schwa">>>>,
  <<Spaced(<<"H", "IDOT", "S", "S", "SCHWA">>), <<"H", "IDOT", "S", "S", "SCHWA">>>>,
  <<Spaced(<<"B", "ouml", "l", "uuml", "m">>), <<"B", "ouml", "l", "uuml", "m">>>>,
  <<Spaced(<<"B", "OUML", "L", "UUML", "M">>), <<"B", "OUML", "L", "UUML", "M">>>> >>

RECURSIVE ApplySpaced(_, _, _)
\* the loop of fix_spaced_text: each substitution works on the result of the one before
ApplySpaced(t, patterns, i) ==
  IF i > Len(patterns) THEN t
  ELSE ApplySpaced(SubI(patterns[i][1], patterns[i][2], t), patterns, i + 1)

\* fix_spaced_text: 'M a d d <schwa>' becomes 'Madd<schwa>'
fix_spaced_text(t) == ApplySpaced(t, SpacedPatterns, 1)

LineChars == {"box1", "box2", "box3"}

\* a literal of the source, matched case-insensitively
LitI(w) == Lit(FoldText(w))

\* invalidation_patterns without its last entry, the line-drawing characters
invalidation_patterns_without_lines == <<
  <<One({"strike", "solidus", "longsolidus", "cmb353", "cmb354", "cyr488", "cyr489"})>>,
  Lit(<<"~", "~">>) \o <<NotPlus({"~"})>> \o Lit(<<"~", "~">>),
  Lit(<<"-", "-">>) \o <<NotPlus({"-"})>> \o Lit(<<"-", "-">>),
  LitI(<<"<", "s", "t", "r", "i", "k", "e", ">">>) \o <<DotLazy>>
     \o LitI(<<"<", "/", "s", "t", "r", "i", "k", "e", ">">>),
  LitI(<<"<", "s", ">">>) \o <<DotLazy>> \o LitI(<<"<", "/", "s", ">">>),
  LitI(<<"<", "d", "e", "l", ">">>) \o <<DotLazy>> \o LitI(<<"<", "/", "d", "e", "l", ">">>),
  LitI(<<"[", "l", "schwa", "gbreve", "v", " ", "e", "d", "i", "l", "i", "b", "]">>),
  LitI(<<"[", "m", "schwa", "t", "n", " ", "l", "schwa", "gbreve", "v", " ",
         "e", "d", "i", "l", "i", "b", "]">>),
  LitI(<<"(", "l", "schwa", "gbreve", "v", " ", "e", "d", "i", "l", "i", "b", ")">>),
  LitI(<<"q", "uuml", "v", "v", "schwa", "d", "schwa", "n", " ", "d", "uuml", "scedil", "uuml", "b">>),
  LitI(<<"q", "uuml", "v", "v", "schwa", "d", "schwa", "n", " ", "d", "uuml", "scedil",
         "m", "uuml", "scedil", "d", "uuml", "r">>),
  LitI(<<"q", "uuml", "v", "v", "schwa", "d", "schwa", "n", " ", "ccedil", "idotless", "x",
         "a", "r", "idotless", "l", "idotless", "b">>),
  LitI(<<"l", "schwa", "gbreve", "v", " ", "o", "l", "u", "n", "u", "b">>) >>

\* invalidation_patterns of detect_invalidated_text, in its order
invalidation_patterns == <<
  <<One({"strike", "solidus", "longsolidus", "cmb353", "cmb354", "cyr488", "cyr489"})>>,
  Lit(<<"~", "~">>) \o <<NotPlus({"~"})>> \o Lit(<<"~", "~">>),
  Lit(<<"-", "-">>) \o <<NotPlus({"-"})>> \o Lit(<<"-", "-">>),
  LitI(<<"<", "s", "t", "r", "i", "k", "e", ">">>) \o <<DotLazy>>
     \o LitI(<<"<", "/", "s", "t", "r", "i", "k", "e", ">">>),
  LitI(<<"<", "s", ">">>) \o <<DotLazy>> \o LitI(<<"<", "/", "s", ">">>),
  LitI(<<"<", "d", "e", "l", ">">>) \o <<DotLazy>> \o LitI(<<"<", "/", "d", "e", "l", ">">>),
  LitI(<<"[", "l", "schwa", "gbreve", "v", " ", "e", "d", "i", "l", "i", "b", "]">>),
  LitI(<<"[", "m", "schwa", "t", "n", " ", "l", "schwa", "gbreve", "v", " ",
         "e", "d", "i", "l", "i", "b", "]">>),
  LitI(<<"(", "l", "schwa", "gbreve", "v", " ", "e", "d", "i", "l", "i", "b", ")">>),
  LitI(<<"q", "uuml", "v", "v", "schwa", "d", "schwa", "n", " ", "d", "uuml", "scedil", "uuml", "b">>),
  LitI(<<"q", "uuml", "v", "v", "schwa", "d", "schwa", "n", " ", "d", "uuml", "scedil",
         "m", "uuml", "scedil", "d", "uuml", "r">>),
  LitI(<<"q", "uuml", "v", "v", "schwa", "d", "schwa", "n", " ", "ccedil", "idotless", "x",
         "a", "r", "idotless", "l", "idotless", "b">>),
  LitI(<<"l", "schwa", "gbreve", "v", " ", "o", "l", "u", "n", "u", "b">>),
  <<Plus(LineChars)>> >>

\* the literal-citation rule: "17.2.3" together with a line-drawing character
SpecialCase(t) ==
  /\ AllStarts(Lit(<<"1", "7", ".", "2", ".", "3">>), t) # {}
  /\ \E i \in 1..Len(t) : t[i] \in LineChars

\* is_valid of detect_invalidated_text
NoPatternIn(ft, patterns) == \A i \in 1..Len(patterns) : AllStarts(patterns[i], ft) = {}

\* is_valid with re.match in place of re.search: only a marker at the start
\* of the text counts
IsValidTextAtStart(t) ==
  /\ \A i \in 1..Len(invalidation_patterns) :
       1 \notin AllStarts(invalidation_patterns[i], FoldText(t))
  /\ ~SpecialCase(t)

IsValidText(t) == NoPatternIn(FoldText(t), invalidation_patterns) /\ ~SpecialCase(t)

RECURSIVE RemovePatterns(_, _, _)
\* the cleaning loop: each pattern in turn removed from the text left by the one before
RemovePatterns(t, patterns, i) ==
  IF i > Len(patterns) THEN t
  ELSE RemovePatterns(SubI(patterns[i], <<>>, t), patterns, i + 1)

\* ord(char) not in range(0x0336, 0x0338)
DropStrike(t) == SelectSeq(t, LAMBDA c : c \notin {"strike", "solidus"})

\* detect_invalidated_text: [clean |-> clean_text, valid |-> is_valid]
detect_invalidated_text(t) ==
  [clean |-> Strip(DropStrike(RemovePatterns(t, invalidation_patterns, 1))), valid |-> IsValidText(t)]

\* lines 94-97 with [ \t]+ in place of \s+: the newlines stay
CollapseSpacesOnly(t) ==
  Strip(Sub(<<Plus({"\n"})>>, <<"\n">>, Sub(<<Plus({" ", "\t"})>>, <<" ">>, t)))

\* lines 94-97 of normalize_text: runs of white space become one space, runs
\* of newlines one newline, and the text is stripped
CollapseWhitespace(t) ==
  Strip(Sub(<<Plus({"\n"})>>, <<"\n">>, Sub(<<Plus(Space)>>, <<" ">>, t)))

NormalizeDetected(d) == [clean |-> CollapseWhitespace(d.clean), valid |-> d.valid]

\* normalize_text: [clean |-> text, valid |-> is_valid]
normalize_text(t) == NormalizeDetected(detect_invalidated_text(fix_spaced_text(t)))

----------------------------------------------------------------------------
(* LegalChunker (src/app/rag/chunking.py): patterns *)

Dash == {"-", "ndash", "mdash"}
\* [IVXLCDM] under re.IGNORECASE
Roman == {"i", "v", "x", "l", "c", "d", "m"}
\* [A-Z and the upper-case Azerbaijani letters] under re.IGNORECASE
UpperClass == AsciiLower \cup {"ccedil", "schwa", "gbreve", "ouml", "scedil", "uuml"}

\* \d+(?:\.\d+)*
Num == <<Plus(Digit), GroupStar(<<One({"."}), Plus(Digit)>>)>>
\* [-dashes] between optional spaces, then c[i u-uml dotless-i schwa]\s+
DashCi == <<Star(Space), One(Dash), Star(Space)>> \o Lit(<<"c">>)
            \o <<One({"i", "uuml", "schwa"}), Plus(Space)>>

Fesil == Lit(<<"f", "schwa", "s", "i", "l">>)
Fasil == Lit(<<"f", "a", "s", "i", "l">>)
Bolum == Lit(<<"b", "ouml", "l", "uuml", "m">>)
Hisse == Lit(<<"h", "i", "s", "s", "schwa">>)
Madde == Lit(<<"m", "a", "d", "d">>) \o <<One({"schwa", "e"})>>
MADDE == Lit(<<"m", "a", "d", "d", "schwa">>)
Bend  == Lit(<<"b">>) \o <<One({"schwa", "e"})>> \o Lit(<<"n", "d">>)
BEND  == Lit(<<"b", "schwa", "n", "d">>)

chapter_patterns == <<
  Fesil \o <<Plus(Space), Plus(Roman)>>,
  Fesil \o <<Plus(Space), Plus(Digit)>>,
  Fasil \o <<Plus(Space), Plus(Roman)>>,
  Fasil \o <<Plus(Space), Plus(Digit)>>,
  <<Plus(Digit)>> \o DashCi \o Fesil >>

section_patterns == <<
  Bolum \o <<Plus(Space), Plus(Roman)>>,
  Bolum \o <<Plus(Space), Plus(Digit)>>,
  Bolum \o <<Plus(Space), Plus(Roman)>>,
  Bolum \o <<Plus(Space), Plus(Digit)>>,
  Hisse \o <<Plus(Space), Plus(Roman)>>,
  Hisse \o <<Plus(Space), Plus(Digit)>>,
  Hisse \o <<Plus(Space), Plus(Roman)>>,
  Hisse \o <<Plus(Space), Plus(Digit)>> >>

article_patterns == <<
  Madde \o <<Plus(Space)>> \o Num,
  MADDE \o <<Plus(Space)>> \o Num,
  Num \o DashCi \o Madde,
  Num \o <<One({"."}), Star(Space), One(UpperClass)>>,
  Num \o <<One({")"}), Star(Space), One(UpperClass)>>,
  Bend \o <<Plus(Space)>> \o Num,
  BEND \o <<Plus(Space)>> \o Num >>

all_patterns == chapter_patterns \o section_patterns \o article_patterns

\* sorted(list(set(...))) of the match starts of every pattern (positions from 1)
SortSet(S) ==
  [i \in 1..Cardinality(S) |-> CHOOSE x \in S : Cardinality({y \in S : y < x}) = i - 1]

\* lines 64-72: the starts of the matches of every pattern in the folded text
MatchStarts(ft, patterns) == UNION {FindIter(patterns[i], ft) : i \in 1..Len(patterns)}

split_positions(text) == SortSet(MatchStarts(FoldText(text), all_patterns))

\* the slices between structural positions; each section is kept with the
\* position it starts at in the text (start is not in the code: it records
\* where the section came from)
StructuredSections(text, sp) ==
  SelectSeq([i \in 1..Len(sp) |->
               [text |-> Strip(Slice(text, sp[i], IF i + 1 <= Len(sp) THEN sp[i + 1]
                                                  ELSE Len(text) + 1)),
                start |-> sp[i]]],
            LAMBDA sec : sec.text # <<>> /\ Len(sec.text) > 20)

RECURSIVE SplitIn(_, _, _, _)
SplitIn(p, t, S, pos) ==
  LET m == SearchIn(p, t, S, pos)
  IN IF m[1] = 0 THEN <<[text |-> Slice(t, pos, Len(t) + 1), start |-> pos]>>
     ELSE <<[text |-> Slice(t, pos, m[1]), start |-> pos]>> \o SplitIn(p, t, S, m[2])

\* re.split(p, t): the pieces between the matches of p, each with its position
ReSplit(p, t) == SplitIn(p, t, AllStarts(p, t), 1)

\* the fixed windows of chunk_size characters without the test of line 243:
\* the blank windows are kept
WindowsKeepingBlank(text, chunk_size) ==
  IF chunk_size <= 0 THEN <<>> ELSE
  [i \in 1..((Len(text) + chunk_size - 1) \div chunk_size) |->
     [text |-> SubSeq(text, (i - 1) * chunk_size + 1,
                      IF i * chunk_size < Len(text) THEN i * chunk_size
                      ELSE Len(text)),
      start |-> (i - 1) * chunk_size + 1]]

\* the fixed windows of chunk_size characters, blank windows left out;
\* range(0, len(text), chunk_size) is empty for a negative chunk_size (and
\* raises for chunk_size = 0, see fallback_raises)
Windows(text, chunk_size) ==
  IF chunk_size <= 0 THEN <<>> ELSE
  SelectSeq([i \in 1..((Len(text) + chunk_size - 1) \div chunk_size) |->
               [text |-> SubSeq(text, (i - 1) * chunk_size + 1,
                                IF i * chunk_size < Len(text) THEN i * chunk_size
                                ELSE Len(text)),
                start |-> (i - 1) * chunk_size + 1]],
            LAMBDA w : Strip(w.text) # <<>>)

\* _fallback_split: paragraphs, else lines, else windows
FallbackOf(text, chunk_size, paragraphs, lines) ==
  IF Len(paragraphs) >= 5 THEN paragraphs
  ELSE IF Len(lines) >= 5 THEN lines
  ELSE Windows(text, chunk_size)

fallback_split(text, chunk_size) ==
  FallbackOf(text, chunk_size,
             ReSplit(Lit(<<"\n">>) \o <<Star(Space)>> \o Lit(<<"\n">>), text),
             ReSplit(Lit(<<"\n">>), text))

\* line 241: range() raises ValueError for a step of 0, when the third tier
\* is reached
FallbackRaises(chunk_size, paragraphs, lines) ==
  Len(paragraphs) < 5 /\ Len(lines) < 5 /\ chunk_size = 0

fallback_raises(text, chunk_size) ==
  FallbackRaises(chunk_size,
                 ReSplit(Lit(<<"\n">>) \o <<Star(Space)>> \o Lit(<<"\n">>), text),
                 ReSplit(Lit(<<"\n">>), text))

\* lines 74-89 raise exactly when the fallback is taken and no structural
\* match at all is found: the document is not split
SplitRaisesWithoutMatch(text, chunk_size, sp) == Len(sp) = 0

\* lines 74-89 raise only when the fallback is taken and raises
SplitRaisesAt(text, chunk_size, sp) ==
  Len(sp) <= 1 /\ fallback_raises(text, chunk_size)

SplitRaises(text, chunk_size) == SplitRaisesAt(text, chunk_size, split_positions(text))

\* the matches of all the patterns in the folded text, each with its pattern
Matches(ft, patterns) ==
  UNION {{<<i, s>> : s \in FindIter(patterns[i], ft)} : i \in 1..Len(patterns)}

\* lines 74-89 without the set() of line 72: the matches are counted, not the
\* distinct positions
SectionsAtCountingMatches(text, chunk_size, sp) ==
  IF Cardinality(Matches(FoldText(text), all_patterns)) > 1
  THEN StructuredSections(text, sp)
  ELSE fallback_split(text, chunk_size)

\* lines 74-89: the sections to walk
SectionsAt(text, chunk_size, sp) ==
  IF Len(sp) > 1 THEN StructuredSections(text, sp) ELSE fallback_split(text, chunk_size)

SectionsOf(text, chunk_size) == SectionsAt(text, chunk_size, split_positions(text))

\* _match_patterns: group(1) of the leftmost match of the first pattern that
\* matches anywhere in the text, or None
\* the patterns that match somewhere in the folded text
Hits(patterns, ft) == {i \in 1..Len(patterns) : AllStarts(patterns[i], ft) # {}}

\* the text of a match m = <<start, end>>
MatchText(text, m) == Slice(text, m[1], m[2])

FirstMatch(text, ft, patterns, hits) ==
  IF hits = {} THEN None
  ELSE MatchText(text, SearchFrom(patterns[SetMin(hits)], ft, 1))

MatchFolded(text, ft, patterns) == FirstMatch(text, ft, patterns, Hits(patterns, ft))

match_patterns(text, patterns) == MatchFolded(text, FoldText(text), patterns)

\* the patterns of _extract_article_number; the group of each is its number
ArticleNumberPatterns == <<
  Num,
  MADDE \o <<Plus(Space)>> \o Num,
  Num \o DashCi \o MADDE >>

\* _extract_article_number: group(1) of the first pattern that matches
\* group(1) of a match m: the first \d+(?:\.\d+)* inside the match
NumberIn(text, ft, m) == MatchText(text, SearchFrom(Num, ft, m[1]))

FirstNumber(text, ft, patterns, hits) ==
  IF hits = {} THEN None
  ELSE NumberIn(text, ft, SearchFrom(patterns[SetMin(hits)], ft, 1))

NumberFolded(text, ft, patterns) == FirstNumber(text, ft, patterns, Hits(patterns, ft))

extract_article_number(article_text) ==
  NumberFolded(article_text, FoldText(article_text), ArticleNumberPatterns)

----------------------------------------------------------------------------
(* Metadata *)

\* LawCodeMapper.LAW_CODES (src/app/rag/law_mapper.py), its values in order;
\* "uXXXX" is the character of that code point
LAW_CODES == <<
  [code |-> <<"f", "a", "m", "i", "l", "y">>,
   name_az |-> <<"A", "i", "l", "u2026", "u00f4", " ", "M", "u2026", "u00f4", "c", "u2026", "u00f4", "l", "l", "u2026", "u00f4", "s", "i">>,
   name_en |-> <<"F", "a", "m", "i", "l", "y", " ", "L", "a", "w", " ", "C", "o", "d", "e">>],
  [code |-> <<"c", "r", "i", "m", "i", "n", "a", "l">>,
   name_az |-> <<"C", "i", "n", "a", "y", "u2026", "u00f4", "t", " ", "M", "u2026", "u00f4", "c", "u2026", "u00f4", "l", "l", "u2026", "u00f4", "s", "i">>,
   name_en |-> <<"C", "r", "i", "m", "i", "n", "a", "l", " ", "L", "a", "w", " ", "C", "o", "d", "e">>],
  [code |-> <<"c", "i", "v", "i", "l">>,
   name_az |-> <<"M", "u221a", "u00ba", "l", "k", "i", " ", "M", "u2026", "u00f4", "c", "u2026", "u00f4", "l", "l", "u2026", "u00f4">>,
   name_en |-> <<"C", "i", "v", "i", "l", " ", "L", "a", "w", " ", "C", "o", "d", "e">>],
  [code |-> <<"c", "r", "i", "m", "i", "n", "a", "l", "_", "p", "r", "o", "c", "e", "d", "u", "r", "e">>,
   name_az |-> <<"C", "i", "n", "a", "y", "u2026", "u00f4", "t", " ", "P", "r", "o", "s", "e", "s", "s", "u", "a", "l", " ", "M", "u2026", "u00f4", "c", "u2026", "u00f4", "l", "l", "u2026", "u00f4", "s", "i">>,
   name_en |-> <<"C", "r", "i", "m", "i", "n", "a", "l", " ", "P", "r", "o", "c", "e", "d", "u", "r", "e", " ", "C", "o", "d", "e">>],
  [code |-> <<"c", "i", "v", "i", "l", "_", "p", "r", "o", "c", "e", "d", "u", "r", "e">>,
   name_az |-> <<"M", "u221a", "u00ba", "l", "k", "i", " ", "P", "r", "o", "s", "e", "s", "s", "u", "a", "l", " ", "M", "u2026", "u00f4", "c", "u2026", "u00f4", "l", "l", "u2026", "u00f4">>,
   name_en |-> <<"C", "i", "v", "i", "l", " ", "P", "r", "o", "c", "e", "d", "u", "r", "e", " ", "C", "o", "d", "e">>],
  [code |-> <<"l", "a", "b", "o", "r">>,
   name_az |-> <<"u2206", "u00e8", "m", "u2026", "u00f4", "k", " ", "M", "u2026", "u00f4", "c", "u2026", "u00f4", "l", "l", "u2026", "u00f4", "s", "i">>,
   name_en |-> <<"L", "a", "b", "o", "r", " ", "L", "a", "w", " ", "C", "o", "d", "e">>],
  [code |-> <<"a", "d", "m", "i", "n", "i", "s", "t", "r", "a", "t", "i", "v", "e", "_", "o", "f", "f", "e", "n", "s", "e", "s">>,
   name_az |-> <<"u0192", "u221e", "n", "z", "i", "b", "a", "t", "i", " ", "X", "u2026", "u00f4", "t", "a", "l", "a", "r", " ", "M", "u2026", "u00f4", "c", "u2026", "u00f4", "l", "l", "u2026", "u00f4", "s", "i">>,
   name_en |-> <<"A", "d", "m", "i", "n", "i", "s", "t", "r", "a", "t", "i", "v", "e", " ", "O", "f", "f", "e", "n", "s", "e", "s", " ", "C", "o", "d", "e">>],
  [code |-> <<"a", "d", "m", "i", "n", "i", "s", "t", "r", "a", "t", "i", "v", "e", "_", "p", "r", "o", "c", "e", "d", "u", "r", "e">>,
   name_az |-> <<"u0192", "u221e", "n", "z", "i", "b", "a", "t", "i", " ", "P", "r", "o", "s", "e", "d", "u", "r", " ", "M", "u2026", "u00f4", "c", "u2026", "u00f4", "l", "l", "u2026", "u00f4", "s", "i">>,
   name_en |-> <<"A", "d", "m", "i", "n", "i", "s", "t", "r", "a", "t", "i", "v", "e", " ", "P", "r", "o", "c", "e", "d", "u", "r", "e", " ", "C", "o", "d", "e">>],
  [code |-> <<"c", "o", "m", "p", "e", "t", "i", "t", "i", "o", "n">>,
   name_az |-> <<"R", "u2026", "u00f4", "q", "a", "b", "u2026", "u00f4", "t", " ", "M", "u2026", "u00f4", "c", "u2026", "u00f4", "l", "l", "u2026", "u00f4", "s", "i">>,
   name_en |-> <<"C", "o", "m", "p", "e", "t", "i", "t", "i", "o", "n", " ", "L", "a", "w", " ", "C", "o", "d", "e">>],
  [code |-> <<"c", "u", "s", "t", "o", "m", "s">>,
   name_az |-> <<"G", "u221a", "u2202", "m", "r", "u221a", "u00ba", "k", " ", "M", "u2026", "u00f4", "c", "u2026", "u00f4", "l", "l", "u2026", "u00f4", "s", "i">>,
   name_en |-> <<"C", "u", "s", "t", "o", "m", "s", " ", "C", "o", "d", "e">>],
  [code |-> <<"e", "l", "e", "c", "t", "i", "o", "n">>,
   name_az |-> <<"S", "e", "u221a", "u00df", "k", "i", " ", "M", "u2026", "u00f4", "c", "u2026", "u00f4", "l", "l", "u2026", "u00f4", "s", "i">>,
   name_en |-> <<"E", "l", "e", "c", "t", "i", "o", "n", " ", "C", "o", "d", "e">>],
  [code |-> <<"e", "x", "e", "c", "u", "t", "i", "o", "n">>,
   name_az |-> <<"C", "u2026", "u00f4", "z", "a", "l", "a", "r", "u0192", "u00b1", "n", " ", "u0192", "u221e", "c", "r", "a", "s", "u0192", "u00b1", " ", "M", "u2026", "u00f4", "c", "u2026", "u00f4", "l", "l", "u2026", "u00f4", "s", "i">>,
   name_en |-> <<"E", "x", "e", "c", "u", "t", "i", "o", "n", " ", "o", "f", " ", "S", "e", "n", "t", "e", "n", "c", "e", "s", " ", "C", "o", "d", "e">>],
  [code |-> <<"f", "o", "r", "e", "s", "t">>,
   name_az |-> <<"M", "e", "u2248", "uuml", "u2026", "u00f4", " ", "M", "u2026", "u00f4", "c", "u2026", "u00f4", "l", "l", "u2026", "u00f4", "s", "i">>,
   name_en |-> <<"F", "o", "r", "e", "s", "t", " ", "C", "o", "d", "e">>],
  [code |-> <<"h", "o", "u", "s", "i", "n", "g">>,
   name_az |-> <<"M", "u2026", "u00f4", "n", "z", "i", "l", " ", "M", "u2026", "u00f4", "c", "u2026", "u00f4", "l", "l", "u2026", "u00f4", "s", "i">>,
   name_en |-> <<"H", "o", "u", "s", "i", "n", "g", " ", "C", "o", "d", "e">>],
  [code |-> <<"l", "a", "n", "d">>,
   name_az |-> <<"T", "o", "r", "p", "a", "q", " ", "M", "u2026", "u00f4", "c", "u2026", "u00f4", "l", "l", "u2026", "u00f4", "s", "i">>,
   name_en |-> <<"L", "a", "n", "d", " ", "C", "o", "d", "e">>],
  [code |-> <<"m", "e", "r", "c", "h", "a", "n", "t", "_", "s", "h", "i", "p", "p", "i", "n", "g">>,
   name_az |-> <<"T", "i", "c", "a", "r", "u2026", "u00f4", "t", " ", "G", "u2026", "u00f4", "m", "i", "u221a", "u00df", "i", "l", "i", "y", "i", " ", "M", "u2026", "u00f4", "c", "u2026", "u00f4", "l", "l", "u2026", "u00f4", "s", "i">>,
   name_en |-> <<"M", "e", "r", "c", "h", "a", "n", "t", " ", "S", "h", "i", "p", "p", "i", "n", "g", " ", "C", "o", "d", "e">>],
  [code |-> <<"m", "i", "g", "r", "a", "t", "i", "o", "n">>,
   name_az |-> <<"M", "i", "q", "r", "a", "s", "i", "y", "a", " ", "M", "u2026", "u00f4", "c", "u2026", "u00f4", "l", "l", "u2026", "u00f4", "s", "i">>,
   name_en |-> <<"M", "i", "g", "r", "a", "t", "i", "o", "n", " ", "C", "o", "d", "e">>],
  [code |-> <<"u", "r", "b", "a", "n", "_", "p", "l", "a", "n", "n", "i", "n", "g">>,
   name_az |-> <<"u2248", "u00fb", "u2026", "u00f4", "h", "u2026", "u00f4", "r", "s", "a", "l", "m", "a", " ", "v", "u2026", "u00f4", " ", "T", "i", "k", "i", "n", "t", "i", " ", "M", "u2026", "u00f4", "c", "u2026", "u00f4", "l", "l", "u2026", "u00f4", "s", "i">>,
   name_en |-> <<"U", "r", "b", "a", "n", " ", "P", "l", "a", "n", "n", "i", "n", "g", " ", "a", "n", "d", " ", "C", "o", "n", "s", "t", "r", "u", "c", "t", "i", "o", "n", " ", "C", "o", "d", "e">>],
  [code |-> <<"w", "a", "t", "e", "r">>,
   name_az |-> <<"S", "u", " ", "M", "u2026", "u00f4", "c", "u2026", "u00f4", "l", "l", "u2026", "u00f4", "s", "i">>,
   name_en |-> <<"W", "a", "t", "e", "r", " ", "C", "o", "d", "e">>] >>

Unknown == <<"U", "n", "k", "n", "o", "w", "n">>

\* the loop of _create_metadata over LAW_CODES
LawInfo(law_code) ==
  LET hits == {i \in 1..Len(LAW_CODES) : LAW_CODES[i].code = law_code}
  IN IF hits = {} THEN [code |-> law_code, name_az |-> Unknown, name_en |-> Unknown]
     ELSE LAW_CODES[SetMin(hits)]

\* Python's truth value of an Optional[str]
Truthy(x) == x # None /\ x # <<>>

MaddeWord == <<"M", "a", "d", "d", "schwa", " ">>

\* _create_metadata without the test of line 352: the chapter keys are always
\* set, to None when there is no chapter
create_metadata_chapter_always(chunk_type, law_code, chapter, section, article, article_num) ==
  LET keys == {"law_code", "law_name_az", "law_name_en", "chunk_type", "chapter", "chapter_context"}
              \cup (IF Truthy(section) THEN {"section", "section_context"} ELSE {})
              \cup (IF Truthy(article) THEN {"article", "article_context"} ELSE {})
              \cup (IF Truthy(article_num) THEN {"article_number", "article_reference"} ELSE {})
  IN [k \in keys |->
        CASE k = "law_code" -> law_code
          [] k = "law_name_az" -> LawInfo(law_code).name_az
          [] k = "law_name_en" -> LawInfo(law_code).name_en
          [] k = "chunk_type" -> chunk_type
          [] k \in {"chapter", "chapter_context"} -> chapter
          [] k \in {"section", "section_context"} -> section
          [] k \in {"article", "article_context"} -> article
          [] k = "article_number" -> article_num
          [] k = "article_reference" -> MaddeWord \o article_num]

\* _create_metadata: a dict, as a function from its keys
create_metadata(chunk_type, law_code, chapter, section, article, article_num) ==
  LET keys == {"law_code", "law_name_az", "law_name_en", "chunk_type"}
              \cup (IF Truthy(chapter) THEN {"chapter", "chapter_context"} ELSE {})
              \cup (IF Truthy(section) THEN {"section", "section_context"} ELSE {})
              \cup (IF Truthy(article) THEN {"article", "article_context"} ELSE {})
              \cup (IF Truthy(article_num) THEN {"article_number", "article_reference"} ELSE {})
  IN [k \in keys |->
        CASE k = "law_code" -> law_code
          [] k = "law_name_az" -> LawInfo(law_code).name_az
          [] k = "law_name_en" -> LawInfo(law_code).name_en
          [] k = "chunk_type" -> chunk_type
          [] k \in {"chapter", "chapter_context"} -> chapter
          [] k \in {"section", "section_context"} -> section
          [] k \in {"article", "article_context"} -> article
          [] k = "article_number" -> article_num
          [] k = "article_reference" -> MaddeWord \o article_num]

ChapterType == <<"c", "h", "a", "p", "t", "e", "r">>
SectionType == <<"s", "e", "c", "t", "i", "o", "n">>
ArticleType == <<"a", "r", "t", "i", "c", "l", "e">>
ContentType == <<"c", "o", "n", "t", "e", "n", "t">>

\* LegalChunk(...); src and piece are not fields of the code: src records the
\* position in the normalised document of the first section the chunk was
\* built from, piece which sub-chunk of split_text it is (0: none)
LegalChunk(content, law_code, chapter, section, article, sub_article, chunk_type, is_valid, metadata, src) ==
  [content |-> content, law_code |-> law_code, chapter |-> chapter, article |-> article,
   sub_article |-> sub_article, section |-> section, chunk_type |-> chunk_type,
   is_valid |-> is_valid, metadata |-> metadata, src |-> src, piece |-> 0]

----------------------------------------------------------------------------
(* RecursiveCharacterTextSplitter as LegalChunker.__init__ builds it:        *)
(* separators "\n\n", "\n", ".", "!", "?", ",", " ", "", length_function     *)
(* len, and the library's defaults (the separator is kept at the start of    *)
(* the piece that follows it, pieces are stripped).                          *)

separators == << <<"\n", "\n">>, <<"\n">>, <<".">>, <<"!">>, <<"?">>, <<",">>, <<" ">>, <<>> >>

RECURSIVE Concat(_)
\* "".join(parts)
Concat(parts) == IF parts = <<>> THEN <<>> ELSE Head(parts) \o Concat(Tail(parts))

RECURSIVE TotalLen(_)
TotalLen(parts) == IF parts = <<>> THEN 0 ELSE Len(Head(parts)) + TotalLen(Tail(parts))

\* _join_docs: the joined, stripped text, or None when it is empty
NoneIfEmpty(joined) == IF joined = <<>> THEN None ELSE joined

JoinDocs(parts) == NoneIfEmpty(Strip(Concat(parts)))

\* the while loop of _merge_splits: parts leave current_doc from the front while
\* it is longer than the overlap, or too long to take the next split of length len
PopFront(cur, len, chunk_size, chunk_overlap) ==
  LET Rest(k) == SubSeq(cur, k + 1, Len(cur))
      Goes(total) == total > chunk_overlap \/ (total + len > chunk_size /\ total > 0)
      stop == {k \in 0..Len(cur) : ~Goes(TotalLen(Rest(k)))}
  IN Rest(SetMin(stop))

\* one round of the for loop of _merge_splits
\* docs.append(doc) unless doc is None
AppendDoc(docs, doc) == IF doc # None THEN Append(docs, doc) ELSE docs

\* one round of the loop without the size test: the split always joins the
\* current document
MergeStepNoLimit(st, d, chunk_size, chunk_overlap) ==
  [docs |-> st.docs, cur |-> Append(st.cur, d)]

MergeStep(st, d, chunk_size, chunk_overlap) ==
  IF TotalLen(st.cur) + Len(d) > chunk_size /\ Len(st.cur) > 0
  THEN [docs |-> AppendDoc(st.docs, JoinDocs(st.cur)),
        cur |-> Append(PopFront(st.cur, Len(d), chunk_size, chunk_overlap), d)]
  ELSE [docs |-> st.docs, cur |-> Append(st.cur, d)]

RECURSIVE MergeLoop(_, _, _, _, _)
\* the for loop of _merge_splits over the splits (the test on st.docs is never
\* true: it makes the state be computed before the next step)
MergeLoop(splits, i, st, chunk_size, chunk_overlap) ==
  IF i > Len(splits) \/ Len(st.docs) < 0 THEN st
  ELSE MergeLoop(splits, i + 1, MergeStep(st, splits[i], chunk_size, chunk_overlap),
                 chunk_size, chunk_overlap)

\* _merge_splits(splits, ""): the splits packed into documents of at most
\* chunk_size characters, each starting with the tail of the one before
MergeEnd(st) == AppendDoc(st.docs, JoinDocs(st.cur))

merge_splits(splits, chunk_size, chunk_overlap) ==
  MergeEnd(MergeLoop(splits, 1, [docs |-> <<>>, cur |-> <<>>], chunk_size, chunk_overlap))

\* the separator _split_text picks: the first that is "" or occurs in the text
\* (the last one when none does), and the separators after it
PickAt(seps, i) ==
  [sep |-> seps[i], rest |-> IF seps[i] = <<>> THEN <<>> ELSE SubSeq(seps, i + 1, Len(seps))]

PickFrom(seps, hits) ==
  IF hits = {} THEN [sep |-> seps[Len(seps)], rest |-> <<>>] ELSE PickAt(seps, SetMin(hits))

PickSeparator(t, seps) ==
  PickFrom(seps, {i \in 1..Len(seps) : seps[i] = <<>> \/ AllStarts(Lit(seps[i]), t) # {}})

\* _split_text_with_regex with keep_separator: the text before the first
\* separator, then each separator with the text that follows it; no empty piece
WithSeparator(pieces, sep) ==
  SelectSeq([i \in 1..Len(pieces) |->
               IF i = 1 THEN pieces[1].text ELSE sep \o pieces[i].text],
            LAMBDA x : x # <<>>)

SplitKeep(t, sep) ==
  IF sep = <<>> THEN [i \in 1..Len(t) |-> <<t[i]>>]
  ELSE WithSeparator(ReSplit(Lit(sep), t), sep)

RECURSIVE split_text_rec(_, _, _, _)
RECURSIVE SplitLoop(_, _, _, _, _, _, _)
RECURSIVE SplitWith(_, _, _, _)

\* the for loop of _split_text over the splits: short splits gather in good
\* and are merged; a long split is split again with the next separators (the
\* test on final is never true: it makes final be computed before the next step)
SplitLoop(splits, i, final, good, rest, chunk_size, chunk_overlap) ==
  IF i > Len(splits) \/ Len(final) < 0
  THEN final \o (IF good # <<>> THEN merge_splits(good, chunk_size, chunk_overlap) ELSE <<>>)
  ELSE IF Len(splits[i]) < chunk_size
  THEN SplitLoop(splits, i + 1, final, Append(good, splits[i]), rest, chunk_size, chunk_overlap)
  ELSE SplitLoop(splits, i + 1,
                 final \o (IF good # <<>> THEN merge_splits(good, chunk_size, chunk_overlap)
                           ELSE <<>>)
                       \o (IF rest = <<>> THEN <<splits[i]>>
                           ELSE split_text_rec(splits[i], rest, chunk_size, chunk_overlap)),
                 <<>>, rest, chunk_size, chunk_overlap)

\* _split_text(text, separators)
SplitWith(t, pick, chunk_size, chunk_overlap) ==
  SplitLoop(SplitKeep(t, pick.sep), 1, <<>>, <<>>, pick.rest, chunk_size, chunk_overlap)

split_text_rec(t, seps, chunk_size, chunk_overlap) ==
  SplitWith(t, PickSeparator(t, seps), chunk_size, chunk_overlap)

\* self.text_splitter.split_text(text)
split_text(t, chunk_size, chunk_overlap) ==
  split_text_rec(t, separators, chunk_size, chunk_overlap)

----------------------------------------------------------------------------
(* _process_content_buffer *)

RECURSIVE JoinLines(_)
\* "\n".join(content_buffer)
JoinLines(buf) ==
  IF Len(buf) = 1 THEN buf[1] ELSE buf[1] \o <<"\n">> \o JoinLines(Tail(buf))

\* line 295-308: one content chunk for each normalised sub-chunk that is kept
KeptChunks(kept, law_code, chapter, section, article, md, src) ==
  [i \in 1..Len(kept) |->
     [LegalChunk(kept[i].clean, law_code, chapter, section, article, None, ContentType,
                 kept[i].valid, md, src) EXCEPT !.piece = kept[i].piece]]

\* the i-th sub-chunk after normalize_text
Piece(n, i) == [clean |-> n.clean, valid |-> n.valid, piece |-> i]

\* lines 291-308 without the length test of line 294
SubChunksAnyLength(sub_chunks, law_code, chapter, section, article, md, src) ==
  KeptChunks(SelectSeq([i \in 1..Len(sub_chunks) |-> Piece(normalize_text(sub_chunks[i]), i)],
                       LAMBDA x : x.valid),
             law_code, chapter, section, article, md, src)

\* lines 291-294: each sub-chunk normalised; kept when valid and longer than 50
SubChunks(sub_chunks, law_code, chapter, section, article, md, src) ==
  KeptChunks(SelectSeq([i \in 1..Len(sub_chunks) |-> Piece(normalize_text(sub_chunks[i]), i)],
                       LAMBDA x : x.valid /\ Len(x.clean) > 50),
             law_code, chapter, section, article, md, src)

\* lines 286-323 without the re-split of lines 290-308: the buffer always
\* becomes a single chunk
ContentChunksWhole(n, law_code, chapter, section, article, md, chunk_size, chunk_overlap, src) ==
  IF ~n.valid \/ Len(n.clean) < 50 THEN <<>>
  ELSE <<LegalChunk(n.clean, law_code, chapter, section, article, None, ContentType,
                    n.valid, md, src)>>

\* lines 286-323 with the whole text emitted before its sub-pieces when it is
\* longer than chunk_size
ContentChunksWholeFirst(n, law_code, chapter, section, article, md, chunk_size, chunk_overlap, src) ==
  IF ~n.valid \/ Len(n.clean) < 50 THEN <<>>
  ELSE IF Len(n.clean) > chunk_size
  THEN <<LegalChunk(n.clean, law_code, chapter, section, article, None, ContentType,
                    n.valid, md, src)>>
         \o SubChunks(split_text(n.clean, chunk_size, chunk_overlap),
                      law_code, chapter, section, article, md, src)
  ELSE <<LegalChunk(n.clean, law_code, chapter, section, article, None, ContentType,
                    n.valid, md, src)>>

\* lines 286-323 with the test of line 286 off by one: len(content_text) <= 50
ContentChunksStrict(n, law_code, chapter, section, article, md, chunk_size, chunk_overlap, src) ==
  IF ~n.valid \/ Len(n.clean) <= 50 THEN <<>>
  ELSE IF Len(n.clean) > chunk_size
  THEN SubChunks(split_text(n.clean, chunk_size, chunk_overlap),
                 law_code, chapter, section, article, md, src)
  ELSE <<LegalChunk(n.clean, law_code, chapter, section, article, None, ContentType,
                    n.valid, md, src)>>

\* lines 286-323, n being the normalised content of the buffer
ContentChunks(n, law_code, chapter, section, article, md, chunk_size, chunk_overlap, src) ==
  IF ~n.valid \/ Len(n.clean) < 50 THEN <<>>
  ELSE IF Len(n.clean) > chunk_size
  THEN SubChunks(split_text(n.clean, chunk_size, chunk_overlap),
                 law_code, chapter, section, article, md, src)
  ELSE <<LegalChunk(n.clean, law_code, chapter, section, article, None, ContentType,
                    n.valid, md, src)>>

\* the content chunks a flush of the buffer appends (none for an empty buffer);
\* src is the position of the first buffered section
process_content_buffer(content_buffer, law_code, chapter, section, article, chunk_size, chunk_overlap, src) ==
  IF content_buffer = <<>> THEN <<>>
  ELSE ContentChunks(normalize_text(JoinLines(content_buffer)),
                     law_code, chapter, section, article,
                     create_metadata(ContentType, law_code, chapter, section, article, None),
                     chunk_size, chunk_overlap, src)

----------------------------------------------------------------------------
(* The documents and the configuration the chunker is run on *)

\* LegalChunker(chunk_size, chunk_overlap): a valid configuration, small
\* enough that a few dozen characters of text exceed chunk_size
ChunkSize == 60
ChunkOverlap == 10

\* a document is at most MaxBlocks of the blocks below, one after the other
MaxBlocks == 3

\* a chapter, a section and an article heading, each with a title
ChapterBlock ==
  <<"F", "schwa", "s", "i", "l", " ", "1", " ", "U", "m", "u", "m", "i", " ", "m", "u",
    "d", "d", "e", "a", "l", "a", "r", " ">>
SectionBlock ==
  <<"B", "ouml", "l", "uuml", "m", " ", "2", " ", "E", "s", "a", "s", " ", "a", "n", "l",
    "a", "y", "i", "s", "l", "a", "r", " ">>
ArticleBlock ==
  <<"M", "a", "d", "d", "schwa", " ", "3", " ", "Q", "a", "n", "u", "n", "u", "n", " ",
    "m", "e", "q", "s", "e", "d", "i", " ">>
\* a sentence of 50 characters, the minimum content length
TextBlock ==
  <<"d", "o", "v", "l", "e", "t", " ", "o", "r", "q", "a", "n", "l", "a", "r", "i", " ",
    "q", "a", "n", "u", "n", "a", " ", "e", "m", "e", "l", " ", "e", "d", "i", "r", ",",
    " ", "v", "e", "t", "e", "n", "d", "a", "s", "l", "a", "r", " ", "d", "a", ".", " ">>
\* the marker of a repealed provision
MarkerBlock ==
  <<"(", "l", "schwa", "gbreve", "v", " ", "e", "d", "i", "l", "i", "b", ")", " ">>
\* a marker inside a marker: removing the inner one leaves a marker
NestedMarkerBlock ==
  <<"(", "l", "schwa", "gbreve", "v", " ", "(", "l", "schwa", "gbreve", "v", " ", "e",
    "d", "i", "l", "i", "b", ")", "e", "d", "i", "l", "i", "b", ")", " ">>

\* a chapter heading whose segment is shorter than 20 characters
ShortChapterBlock ==
  <<"F", "schwa", "s", "i", "l", " ", "4", " ", "G", "i", "r", "i", "s", " ">>
\* the two-article example of the specification
SpecExampleBlock ==
  <<"M", "a", "d", "d", "schwa", " ", "1", ".", " ", "C", "o", "n", "t", "e", "n", "t",
    " ", "A", ".", " ", "M", "a", "d", "d", "schwa", " ", "2", ".", " ", "C", "o", "n",
    "t", "e", "n", "t", " ", "B", ".", " ">>
\* a chapter heading "N-ci fəsil 2" whose number is 47 digits long: the
\* heading "fəsil 2" inside it is a boundary too, which cuts it
CutHeadingBlock ==
  <<"1", "1", "1", "1", "1", "1", "1", "1", "1", "1", "1", "1", "1", "1", "1", "1", "1",
    "1", "1", "1", "1", "1", "1", "1", "1", "1", "1", "1", "1", "1", "1", "1", "1", "1",
    "1", "1", "1", "1", "1", "1", "1", "1", "1", "1", "1", "1", "1", "-", "c", "i", " ",
    "f", "schwa", "s", "i", "l", " ", "2", " ", "K", "e", "c", "i", "d", " ", "m", "u",
    "d", "d", "e", "a", "l", "a", "r", "i", " ">>
\* a spaced chapter and a spaced section heading with the marker of a repealed
\* provision between two of its letters: the heading appears once the marker
\* is removed and the spaced word is fixed by the next normalisation
BrokenChapterBlock ==
  <<"F", " ", "schwa", " ", "s", " ", "(", "l", "schwa", "gbreve", "v", " ", "e", "d",
    "i", "l", "i", "b", ")", "i", " ", "l", " ", "1", " ", "U", "m", "u", "m", "i", " ",
    "m", "u", "d", "d", "e", "a", "l", "a", "r", " ">>
BrokenSectionBlock ==
  <<"B", " ", "ouml", " ", "l", " ", "(", "l", "schwa", "gbreve", "v", " ", "e", "d",
    "i", "l", "i", "b", ")", "uuml", " ", "m", " ", "2", " ", "E", "s", "a", "s", " ",
    "a", "n", "l", "a", "y", "i", "s", "l", "a", "r", " ">>

\* an article heading of exactly 20 characters
TwentyBlock ==
  <<"M", "a", "d", "d", "schwa", " ", "5", " ", "S", "o", "n", " ", "q", "a", "y", "d",
    "a", "l", "a", "r", " ">>

\* the sentence of TextBlock as five paragraphs, with a blank line between them
ParagraphsBlock ==
  <<"d", "o", "v", "l", "e", "t", " ", "o", "r", "q", "a", "n", "l", "a", "r", "i", "\n",
    "\n", "q", "a", "n", "u", "n", "a", " ", "e", "m", "e", "l", "\n", "\n", "e", "d",
    "i", "r", ",", "\n", "\n", "v", "e", "t", "e", "n", "d", "a", "s", "l", "a", "r",
    "\n", "\n", "d", "a", ".", " ">>

Blocks == {ChapterBlock, SectionBlock, ArticleBlock, TextBlock, MarkerBlock,
           NestedMarkerBlock, ShortChapterBlock, SpecExampleBlock}

RECURSIVE DocsOfLen(_)
DocsOfLen(n) ==
  IF n = 0 THEN {<<>>} ELSE {b \o d : b \in Blocks, d \in DocsOfLen(n - 1)}

\* the empty document and a document of whitespace only
EmptyDocument == <<>>
WhitespaceDocument == <<" ", "\n", " ">>

\* documents in which the cut heading follows an article, and a chapter or a
\* section after the article
CutHeadingDocuments ==
  {d \o CutHeadingBlock : d \in {<<>>, ArticleBlock, ArticleBlock \o ChapterBlock,
                                  ArticleBlock \o SectionBlock}}

\* documents with one heading at their start and a second heading, of another
\* family, that only the normalisation of the segment brings out
MixedHeadingDocuments ==
  {ArticleBlock \o BrokenChapterBlock, ArticleBlock \o BrokenSectionBlock,
   SectionBlock \o BrokenChapterBlock}

\* documents with a segment of exactly 20 characters: alone, and between
\* boundaries
ThresholdDocuments ==
  {TwentyBlock, TwentyBlock \o ChapterBlock, ChapterBlock \o TwentyBlock}

\* documents of five paragraphs, without a heading and after one
ParagraphDocuments == {ParagraphsBlock, ChapterBlock \o ParagraphsBlock}

Documents ==
  UNION {DocsOfLen(n) : n \in 1..MaxBlocks}
    \cup {EmptyDocument, WhitespaceDocument} \cup CutHeadingDocuments
    \cup MixedHeadingDocuments \cup ThresholdDocuments \cup ParagraphDocuments

\* a code of LawCodeMapper.LAW_CODES, and the code get_law_info gives an unknown file
LawCodes == {<<"c", "i", "v", "i", "l">>, <<"u", "n", "k", "n", "o", "w", "n">>}

----------------------------------------------------------------------------
(* extract_legal_structure as a state machine: one step normalises the      *)
(* document, one splits it into sections, one per round of the loop over    *)
(* the sections, and one flushes the rest and filters the result.           *)

VARIABLES
  chunk_size,       \* self.chunk_size
  chunk_overlap,    \* self.chunk_overlap
  pc,               \* "normalize", "split", "walk", "done", "raised"
  raw,              \* the text argument
  law_code,         \* the law_code argument
  text,             \* text after line 62
  sections,         \* the sections to walk, each with the position it starts at
  idx,              \* the round of the loop: sections[idx] is next
  current_chapter, current_section, current_article,
  content_buffer,
  buffer_src,       \* the position of the first section in content_buffer (0: none)
  chunks,
  valid_chunks,     \* the list returned (empty until pc = "done")
  mode,             \* "single": one call; "alone", "together": two calls, see Switch
  turn,             \* which of the two calls is running (1 or 2)
  suspended,        \* the local variables of the call that is not running
  alone,            \* what each of the two calls returned when run alone
  detected,         \* what detect_invalidated_text returned, see NormalizerSpec
  store,            \* the value Redis holds under the session's key, see RedisSpec
  calls             \* the calls of RedisService.add_message that are under way

vars == <<chunk_size, chunk_overlap, pc, raw, law_code, text, sections, idx, current_chapter, current_section,
          current_article, content_buffer, buffer_src, chunks, valid_chunks,
          mode, turn, suspended, alone, detected, store, calls>>

scheduler == <<mode, turn, suspended, alone>>

\* the variables of the normaliser on its own and of the Redis service, which
\* no step of the chunker reads or writes
outside == <<detected, store, calls>>

\* the normaliser is not run on its own and no call of the Redis service is
\* under way
NoService ==
  /\ detected = <<>>
  /\ store = None
  /\ calls = <<>>

\* there is one call of extract_legal_structure only
SingleCall ==
  /\ mode = "single"
  /\ turn = 1
  /\ suspended = <<>>
  /\ alone = <<>>

\* a chunker built with a valid configuration, at the call of
\* extract_legal_structure
Init ==
  /\ chunk_size = ChunkSize
  /\ chunk_overlap = ChunkOverlap
  /\ pc = "normalize"
  /\ raw \in Documents
  /\ law_code \in LawCodes
  /\ text = <<>>
  /\ sections = <<>>
  /\ idx = 1
  /\ current_chapter = None
  /\ current_section = None
  /\ current_article = None
  /\ content_buffer = <<>>
  /\ buffer_src = 0
  /\ chunks = <<>>
  /\ valid_chunks = <<>>
  /\ SingleCall
  /\ NoService

\* line 62: text, _ = self.normalizer.normalize_text(text)
Normalize ==
  /\ pc = "normalize"
  /\ text' = normalize_text(raw).clean
  /\ pc' = "split"
  /\ UNCHANGED <<outside, chunk_size, chunk_overlap, scheduler, raw, law_code, sections, idx, current_chapter, current_section,
                 current_article, content_buffer, buffer_src, chunks, valid_chunks>>

\* lines 64-95: the structural positions, the sections, the walk's initial state
Split ==
  /\ pc = "split"
  /\ sections' = SectionsOf(text, chunk_size)
  /\ idx' = 1
  /\ pc' = IF SplitRaises(text, chunk_size) THEN "raised" ELSE "walk"
  /\ UNCHANGED <<outside, chunk_size, chunk_overlap, scheduler, raw, law_code, text, current_chapter, current_section,
                 current_article, content_buffer, buffer_src, chunks, valid_chunks>>

\* what a flush of content_buffer appends to chunks at this point of the walk
Flushed ==
  process_content_buffer(content_buffer, law_code, current_chapter, current_section,
                         current_article, chunk_size, chunk_overlap, buffer_src)

\* continue: the section leaves no trace
SkipSection ==
  UNCHANGED <<current_chapter, current_section, current_article, content_buffer,
              buffer_src, chunks>>

\* lines 127-139 without section=current_section: the chapter chunk starts
\* without a section
ChapterChunkWithoutSection(src, section_text, is_valid, chapter_match) ==
  LegalChunk(section_text, law_code, chapter_match, None, None, None,
             ChapterType, is_valid,
             create_metadata(ChapterType, law_code, chapter_match, None,
                             None, None), src)

\* lines 127-139
ChapterChunk(src, section_text, is_valid, chapter_match) ==
  LegalChunk(section_text, law_code, chapter_match, current_section, None, None,
             ChapterType, is_valid,
             create_metadata(ChapterType, law_code, chapter_match, current_section,
                             None, None), src)

\* lines 159-171
SectionChunk(src, section_text, is_valid, section_match) ==
  LegalChunk(section_text, law_code, current_chapter, section_match, None, None,
             SectionType, is_valid,
             create_metadata(SectionType, law_code, current_chapter, section_match,
                             None, None), src)

\* lines 191-212 with the content cut at chunk_size characters
ArticleChunkCut(src, section_text, is_valid, article_match, article_num) ==
  LegalChunk(SubSeq(section_text, 1,
                    IF Len(section_text) < chunk_size THEN Len(section_text)
                    ELSE chunk_size),
             law_code, current_chapter, current_section, article_match,
             article_num, ArticleType, is_valid,
             create_metadata(ArticleType, law_code, current_chapter, current_section,
                             article_match, article_num), src)

\* lines 191-212
ArticleChunk(src, section_text, is_valid, article_match, article_num) ==
  LegalChunk(section_text, law_code, current_chapter, current_section, article_match,
             article_num, ArticleType, is_valid,
             create_metadata(ArticleType, law_code, current_chapter, current_section,
                             article_match, article_num), src)

\* the heading's chunk appended before the buffer is flushed
AppendHeadingFirst(flushed, chunk) == chunks \o <<chunk>> \o flushed

\* a heading flushes the buffer first, then appends its own chunk
AppendHeading(flushed, chunk) == chunks \o flushed \o <<chunk>>

\* lines 109-216 with the chapter label set before the flush of lines 113-122:
\* the buffer is flushed under the new chapter
WalkSectionFlushLate(src, section_text, is_valid, chapter_match, section_match, article_match, flushed) ==
  IF chapter_match # None
  THEN /\ current_chapter' = chapter_match
       /\ current_article' = None
       /\ content_buffer' = <<>>
       /\ buffer_src' = 0
       /\ chunks' = AppendHeading(process_content_buffer(content_buffer, law_code, chapter_match,
                                                         current_section, None, chunk_size,
                                                         chunk_overlap, buffer_src),
                                  ChapterChunk(src, section_text, is_valid, chapter_match))
       /\ UNCHANGED current_section
  ELSE IF section_match # None
  THEN /\ current_section' = section_match
       /\ current_article' = None
       /\ content_buffer' = <<>>
       /\ buffer_src' = 0
       /\ chunks' = AppendHeading(flushed, SectionChunk(src, section_text, is_valid,
                                                     section_match))
       /\ UNCHANGED current_chapter
  ELSE IF article_match # None
  THEN /\ current_article' = article_match
       /\ content_buffer' = <<>>
       /\ buffer_src' = 0
       /\ chunks' = AppendHeading(flushed,
                                  ArticleChunk(src, section_text, is_valid, article_match,
                                               extract_article_number(article_match)))
       /\ UNCHANGED <<current_chapter, current_section>>
  ELSE \* regular content
       /\ content_buffer' = Append(content_buffer, section_text)
       /\ buffer_src' = IF content_buffer = <<>> THEN src ELSE buffer_src
       /\ UNCHANGED <<current_chapter, current_section, current_article, chunks>>

\* lines 109-216 without lines 125 and 157: a chapter or a section heading
\* leaves the current article as it is
WalkSectionKeepArticle(src, section_text, is_valid, chapter_match, section_match, article_match, flushed) ==
  IF chapter_match # None
  THEN /\ current_chapter' = chapter_match
       /\ content_buffer' = <<>>
       /\ buffer_src' = 0
       /\ chunks' = AppendHeading(flushed, ChapterChunk(src, section_text, is_valid,
                                                     chapter_match))
       /\ UNCHANGED <<current_section, current_article>>
  ELSE IF section_match # None
  THEN /\ current_section' = section_match
       /\ content_buffer' = <<>>
       /\ buffer_src' = 0
       /\ chunks' = AppendHeading(flushed, SectionChunk(src, section_text, is_valid,
                                                     section_match))
       /\ UNCHANGED <<current_chapter, current_article>>
  ELSE IF article_match # None
  THEN /\ current_article' = article_match
       /\ content_buffer' = <<>>
       /\ buffer_src' = 0
       /\ chunks' = AppendHeading(flushed,
                                  ArticleChunk(src, section_text, is_valid, article_match,
                                               extract_article_number(article_match)))
       /\ UNCHANGED <<current_chapter, current_section>>
  ELSE \* regular content
       /\ content_buffer' = Append(content_buffer, section_text)
       /\ buffer_src' = IF content_buffer = <<>> THEN src ELSE buffer_src
       /\ UNCHANGED <<current_chapter, current_section, current_article, chunks>>

\* lines 109-216: a valid, normalised section is a chapter, a section or an
\* article heading, or content; flushed is what a flush appends
WalkSection(src, section_text, is_valid, chapter_match, section_match, article_match, flushed) ==
  IF chapter_match # None
  THEN /\ current_chapter' = chapter_match
       /\ current_article' = None
       /\ content_buffer' = <<>>
       /\ buffer_src' = 0
       /\ chunks' = AppendHeading(flushed, ChapterChunk(src, section_text, is_valid,
                                                     chapter_match))
       /\ UNCHANGED current_section
  ELSE IF section_match # None
  THEN /\ current_section' = section_match
       /\ current_article' = None
       /\ content_buffer' = <<>>
       /\ buffer_src' = 0
       /\ chunks' = AppendHeading(flushed, SectionChunk(src, section_text, is_valid,
                                                     section_match))
       /\ UNCHANGED current_chapter
  ELSE IF article_match # None
  THEN /\ current_article' = article_match
       /\ content_buffer' = <<>>
       /\ buffer_src' = 0
       /\ chunks' = AppendHeading(flushed,
                                  ArticleChunk(src, section_text, is_valid, article_match,
                                               extract_article_number(article_match)))
       /\ UNCHANGED <<current_chapter, current_section>>
  ELSE \* regular content
       /\ content_buffer' = Append(content_buffer, section_text)
       /\ buffer_src' = IF content_buffer = <<>> THEN src ELSE buffer_src
       /\ UNCHANGED <<current_chapter, current_section, current_article, chunks>>

\* the walk without lines 106-107: an invalid section is treated like a valid one
WalkNormalizedNoSkip(src, n, flushed) ==
  WalkSection(src, n.clean, n.valid,
              match_patterns(n.clean, chapter_patterns),
              match_patterns(n.clean, section_patterns),
              match_patterns(n.clean, article_patterns), flushed)

\* lines 103-107 with a flush before the skip: an invalid section ends the
\* buffer
WalkNormalizedFlushInvalid(src, n, flushed) ==
  IF ~n.valid
  THEN /\ chunks' = chunks \o flushed
       /\ content_buffer' = <<>>
       /\ buffer_src' = 0
       /\ UNCHANGED <<current_chapter, current_section, current_article>>
  ELSE WalkSection(src, n.clean, n.valid,
                   match_patterns(n.clean, chapter_patterns),
                   match_patterns(n.clean, section_patterns),
                   match_patterns(n.clean, article_patterns), flushed)

\* lines 109-176 with the article family tested first: a section with an
\* article heading is an article whatever else it holds
WalkNormalizedArticleFirst(src, n, flushed) ==
  IF ~n.valid THEN SkipSection
  ELSE WalkSection(src, n.clean, n.valid,
                   IF match_patterns(n.clean, article_patterns) # None THEN None
                   ELSE match_patterns(n.clean, chapter_patterns),
                   IF match_patterns(n.clean, article_patterns) # None THEN None
                   ELSE match_patterns(n.clean, section_patterns),
                   match_patterns(n.clean, article_patterns), flushed)

\* lines 103-107: n is the normalised section; an invalid one is skipped
WalkNormalized(src, n, flushed) ==
  IF ~n.valid THEN SkipSection
  ELSE WalkSection(src, n.clean, n.valid,
                   match_patterns(n.clean, chapter_patterns),
                   match_patterns(n.clean, section_patterns),
                   match_patterns(n.clean, article_patterns), flushed)

\* lines 98-100: a stripped section shorter than 20 characters is skipped
WalkStripped(src, stripped, flushed) ==
  IF stripped = <<>> \/ Len(stripped) < 20 THEN SkipSection
  ELSE WalkNormalized(src, normalize_text(stripped), flushed)

\* lines 97-216: one round of the loop over the sections
ProcessSection ==
  /\ pc = "walk"
  /\ idx <= Len(sections)
  /\ idx' = idx + 1
  /\ WalkStripped(sections[idx].start, Strip(sections[idx].text), Flushed)
  /\ UNCHANGED <<outside, chunk_size, chunk_overlap, scheduler, pc, raw, law_code, text, sections, valid_chunks>>

\* the list comprehension of line 230
ValidChunks(cs) == SelectSeq(cs, LAMBDA c : c.is_valid)

\* lines 218-231: the remaining content is flushed, the valid chunks returned
Finish ==
  /\ pc = "walk"
  /\ idx > Len(sections)
  /\ chunks' = chunks \o Flushed
  /\ valid_chunks' = ValidChunks(chunks')
  /\ pc' = "done"
  /\ UNCHANGED <<outside, chunk_size, chunk_overlap, scheduler, raw, law_code, text, sections, idx, current_chapter, current_section,
                 current_article, content_buffer, buffer_src>>

Next == Normalize \/ Split \/ ProcessSection \/ Finish

Spec == Init /\ [][Next]_vars

----------------------------------------------------------------------------
(* _fallback_split on its own, applied to any text *)

\* the texts are at most MaxTextLen characters of a letter, a space and a newline
MaxTextLen == 4
\* the window size of the chunker _fallback_split is called on
WindowSize == 2

RECURSIVE TextsOfLen(_)
TextsOfLen(n) ==
  IF n = 0 THEN {<<>>}
  ELSE {<<c>> \o t : c \in {"a", " ", "\n"}, t \in TextsOfLen(n - 1)}

\* five paragraphs, for the first tier
FiveParagraphs ==
  <<"a", "\n", "\n", "a", "\n", "\n", "a", "\n", "\n", "a", "\n", "\n", "a">>

FallbackTexts == UNION {TextsOfLen(n) : n \in 0..MaxTextLen} \cup {FiveParagraphs}

FallbackInit ==
  /\ chunk_size \in {WindowSize, ChunkSize}
  /\ chunk_overlap = 1
  /\ pc = "fallback"
  /\ raw \in FallbackTexts
  /\ law_code \in LawCodes
  /\ text = <<>>
  /\ sections = <<>>
  /\ idx = 1
  /\ current_chapter = None
  /\ current_section = None
  /\ current_article = None
  /\ content_buffer = <<>>
  /\ buffer_src = 0
  /\ chunks = <<>>
  /\ valid_chunks = <<>>
  /\ SingleCall
  /\ NoService

\* sections = self._fallback_split(text)
ApplyFallback ==
  /\ pc = "fallback"
  /\ sections' = fallback_split(raw, chunk_size)
  /\ pc' = "fallback_done"
  /\ UNCHANGED <<outside, chunk_size, chunk_overlap, scheduler, raw, law_code, text, idx, current_chapter,
                 current_section, current_article, content_buffer, buffer_src, chunks,
                 valid_chunks>>

FallbackNext == ApplyFallback

FallbackSpec == FallbackInit /\ [][FallbackNext]_vars

----------------------------------------------------------------------------
(* Two calls of extract_legal_structure on one LegalChunker, for two         *)
(* documents. The variables of a call (lines 29, 62-95) are locals of its    *)
(* frame; the instance holds chunk_size, chunk_overlap, the splitter and the *)
(* normalizer, which a call only reads. The two calls are first run one      *)
(* after the other, then again interleaved step by step.                     *)

\* the first call's documents are at most MaxConcurrentBlocks blocks, the
\* second call's document is one block
MaxConcurrentBlocks == 2

ConcurrentBlocks == {ChapterBlock, ArticleBlock, TextBlock}

RECURSIVE ConcurrentDocsOfLen(_)
ConcurrentDocsOfLen(n) ==
  IF n = 0 THEN {<<>>}
  ELSE {b \o d : b \in ConcurrentBlocks, d \in ConcurrentDocsOfLen(n - 1)}

FirstDocuments == UNION {ConcurrentDocsOfLen(n) : n \in 1..MaxConcurrentBlocks}
SecondDocuments == ConcurrentDocsOfLen(1)

\* the local variables of the running call
Frame ==
  [pc |-> pc, raw |-> raw, law_code |-> law_code, text |-> text, sections |-> sections,
   idx |-> idx, current_chapter |-> current_chapter, current_section |-> current_section,
   current_article |-> current_article, content_buffer |-> content_buffer,
   buffer_src |-> buffer_src, chunks |-> chunks, valid_chunks |-> valid_chunks]

\* the local variables of a call at its start
NewFrame(r, code) ==
  [pc |-> "normalize", raw |-> r, law_code |-> code, text |-> <<>>, sections |-> <<>>,
   idx |-> 1, current_chapter |-> None, current_section |-> None,
   current_article |-> None, content_buffer |-> <<>>, buffer_src |-> 0,
   chunks |-> <<>>, valid_chunks |-> <<>>]

\* the call with frame f runs next
Resume(f) ==
  /\ pc' = f.pc
  /\ raw' = f.raw
  /\ law_code' = f.law_code
  /\ text' = f.text
  /\ sections' = f.sections
  /\ idx' = f.idx
  /\ current_chapter' = f.current_chapter
  /\ current_section' = f.current_section
  /\ current_article' = f.current_article
  /\ content_buffer' = f.content_buffer
  /\ buffer_src' = f.buffer_src
  /\ chunks' = f.chunks
  /\ valid_chunks' = f.valid_chunks

ConcurrentInit ==
  /\ chunk_size = ChunkSize
  /\ chunk_overlap = ChunkOverlap
  /\ pc = "normalize"
  /\ raw \in FirstDocuments
  /\ law_code = <<"c", "i", "v", "i", "l">>
  /\ text = <<>>
  /\ sections = <<>>
  /\ idx = 1
  /\ current_chapter = None
  /\ current_section = None
  /\ current_article = None
  /\ content_buffer = <<>>
  /\ buffer_src = 0
  /\ chunks = <<>>
  /\ valid_chunks = <<>>
  /\ mode = "alone"
  /\ turn = 1
  /\ suspended \in {NewFrame(d, <<"u", "n", "k", "n", "o", "w", "n">>) :
                      d \in SecondDocuments \ {raw}}
  /\ alone = <<>>
  /\ NoService

\* the context kept on the instance instead of in the frame: a switch takes
\* the other call's frame but leaves the labels and the buffer as they are
SwitchSharingContext ==
  /\ mode = "together" \/ pc = "done"
  /\ suspended.pc # "done"
  /\ pc' = suspended.pc
  /\ raw' = suspended.raw
  /\ law_code' = suspended.law_code
  /\ text' = suspended.text
  /\ sections' = suspended.sections
  /\ idx' = suspended.idx
  /\ buffer_src' = suspended.buffer_src
  /\ chunks' = suspended.chunks
  /\ valid_chunks' = suspended.valid_chunks
  /\ suspended' = Frame
  /\ turn' = 3 - turn
  /\ UNCHANGED <<outside, chunk_size, chunk_overlap, mode, alone, current_chapter,
                 current_section, current_article, content_buffer>>

\* the other call runs next: between any two steps when the calls run
\* together, after the return of the first when they run one after the other;
\* each call keeps its own locals
Switch ==
  /\ mode = "together" \/ pc = "done"
  /\ suspended.pc # "done"
  /\ Resume(suspended)
  /\ suspended' = Frame
  /\ turn' = 3 - turn
  /\ UNCHANGED <<outside, chunk_size, chunk_overlap, mode, alone>>

\* both calls have returned, one after the other: what they returned is kept
\* and the same two calls are started again, to run together
RunTogether ==
  /\ mode = "alone"
  /\ turn = 2
  /\ pc = "done"
  /\ suspended.pc = "done"
  /\ alone' = <<suspended.valid_chunks, valid_chunks>>
  /\ mode' = "together"
  /\ turn' = 1
  /\ Resume(NewFrame(suspended.raw, suspended.law_code))
  /\ suspended' = NewFrame(raw, law_code)
  /\ UNCHANGED <<outside, chunk_size, chunk_overlap>>

ConcurrentNext == Next \/ Switch \/ RunTogether

ConcurrentSpec == ConcurrentInit /\ [][ConcurrentNext]_vars

----------------------------------------------------------------------------
(* LegalChunker(chunk_size, chunk_overlap) followed by a call of             *)
(* extract_legal_structure, for any configuration. __init__ (lines 16-25)    *)
(* checks nothing itself; RecursiveCharacterTextSplitter raises ValueError   *)
(* for chunk_overlap > chunk_size, and, in its later releases only, for      *)
(* chunk_size <= 0 (the repository pins no release: either may be built).    *)

ChunkSizes == {0, ChunkSize}
ChunkOverlaps == {0, ChunkOverlap, ChunkSize, ChunkSize + 1}

ConfigDocuments == FirstDocuments \cup {EmptyDocument}

ConfigInit ==
  /\ chunk_size \in ChunkSizes
  /\ chunk_overlap \in ChunkOverlaps
  /\ pc = "construct"
  /\ raw \in ConfigDocuments
  /\ law_code = <<"c", "i", "v", "i", "l">>
  /\ text = <<>>
  /\ sections = <<>>
  /\ idx = 1
  /\ current_chapter = None
  /\ current_section = None
  /\ current_article = None
  /\ content_buffer = <<>>
  /\ buffer_src = 0
  /\ chunks = <<>>
  /\ valid_chunks = <<>>
  /\ SingleCall
  /\ NoService

\* the splitter's constructor raises in every release
SplitterRejects == chunk_overlap > chunk_size

\* the splitter's constructor raises in its later releases
SplitterMayReject == chunk_size <= 0 \/ chunk_overlap < 0

\* lines 16-25: the chunker is built, or the splitter's constructor raises
Construct ==
  /\ pc = "construct"
  /\ \/ SplitterRejects /\ pc' = "rejected"
     \/ SplitterMayReject /\ pc' = "rejected"
     \/ ~SplitterRejects /\ pc' = "normalize"
  /\ UNCHANGED <<outside, chunk_size, chunk_overlap, scheduler, raw, law_code, text, sections, idx,
                 current_chapter, current_section, current_article, content_buffer,
                 buffer_src, chunks, valid_chunks>>

ConfigNext == Construct \/ Next

ConfigSpec == ConfigInit /\ [][ConfigNext]_vars

----------------------------------------------------------------------------
(* detect_invalidated_text on its own, applied to any text *)

\* a text is at most MaxPieces of the pieces below, one after the other
MaxPieces == 3

\* a letter, a space, a newline, the tags and the tildes that enclose struck
\* text, two markers of a repealed provision (one in capitals), a line-drawing
\* character, the citation of the literal-citation rule and a combining
\* strikethrough character
Pieces ==
  {<<"a">>,
   <<" ">>,
   <<"\n">>,
   <<"<", "s", ">">>,
   <<"<", "/", "s", ">">>,
   <<"~", "~">>,
   <<"(", "l", "schwa", "gbreve", "v", " ", "e", "d", "i", "l", "i", "b", ")">>,
   <<"L", "SCHWA", "GBREVE", "V", " ", "O", "L", "U", "N", "U", "B">>,
   <<"box1">>,
   <<"1", "7", ".", "2", ".", "3">>,
   <<"strike">>}

RECURSIVE TextsOfPieces(_)
TextsOfPieces(n) ==
  IF n = 0 THEN {<<>>} ELSE {p \o t : p \in Pieces, t \in TextsOfPieces(n - 1)}

DetectTexts == UNION {TextsOfPieces(n) : n \in 0..MaxPieces}

NormalizerInit ==
  /\ chunk_size = ChunkSize
  /\ chunk_overlap = ChunkOverlap
  /\ pc = "detect"
  /\ raw \in DetectTexts
  /\ law_code = <<"u", "n", "k", "n", "o", "w", "n">>
  /\ text = <<>>
  /\ sections = <<>>
  /\ idx = 1
  /\ current_chapter = None
  /\ current_section = None
  /\ current_article = None
  /\ content_buffer = <<>>
  /\ buffer_src = 0
  /\ chunks = <<>>
  /\ valid_chunks = <<>>
  /\ SingleCall
  /\ NoService

\* clean_text, is_valid = TextNormalizer.detect_invalidated_text(text)
ApplyDetect ==
  /\ pc = "detect"
  /\ detected' = detect_invalidated_text(raw)
  /\ pc' = "detect_done"
  /\ UNCHANGED <<chunk_size, chunk_overlap, scheduler, store, calls, raw, law_code, text,
                 sections, idx, current_chapter, current_section, current_article,
                 content_buffer, buffer_src, chunks, valid_chunks>>

NormalizerNext == ApplyDetect

NormalizerSpec == NormalizerInit /\ [][NormalizerNext]_vars

(***************************************************************************)
(* RedisService.add_message (src/app/services/redis_service.py): calls on  *)
(* one session_id, interleaved at their awaits.  store is what Redis holds  *)
(* under the key of the session, calls holds one record per call of        *)
(* add_message.                                                            *)
(***************************************************************************)
MaxCalls == 3

\* MessageRole of the messages chat() adds: the question and the answer
Roles == {"user", "assistant"}

\* the content argument
Contents == {"salam", "sual"}

\* ChatMessage(role=role, content=content, metadata=metadata or {})
ChatMessage(role, content) == [role |-> role, content |-> content]

\* ChatSession(session_id=session_id): a session without messages
ChatSession == [found |-> TRUE, messages |-> <<>>]

\* what get_session returns when Redis holds nothing under the key
NoSession == [found |-> FALSE, messages |-> <<>>]

RedisInit ==
  /\ chunk_size = ChunkSize
  /\ chunk_overlap = ChunkOverlap
  /\ pc = "serve"
  /\ raw = <<>>
  /\ law_code = <<"u", "n", "k", "n", "o", "w", "n">>
  /\ text = <<>>
  /\ sections = <<>>
  /\ idx = 1
  /\ current_chapter = None
  /\ current_section = None
  /\ current_article = None
  /\ content_buffer = <<>>
  /\ buffer_src = 0
  /\ chunks = <<>>
  /\ valid_chunks = <<>>
  /\ SingleCall
  /\ detected = <<>>
  /\ store \in {NoSession, ChatSession}
  /\ calls = <<>>

chunker == <<chunk_size, chunk_overlap, scheduler, pc, raw, law_code, text, sections, idx, current_chapter, current_section, current_article, content_buffer, buffer_src, chunks, valid_chunks, detected>>

\* await redis_service.add_message(session_id, role, content): the call
\* starts and is about to await get_session
AddMessage(role, content) ==
  /\ pc = "serve"
  /\ Len(calls) < MaxCalls
  /\ calls' = Append(calls, [at |-> "get", session |-> NoSession,
                             message |-> ChatMessage(role, content)])
  /\ UNCHANGED <<chunker, store>>

\* session = await self.get_session(session_id): the value under the key
\* as it is when Redis answers
get_session(c) ==
  /\ calls[c].at = "get"
  /\ calls' = [calls EXCEPT ![c].at = "save", ![c].session = store]
  /\ UNCHANGED <<chunker, store>>

\* lines 79-85: the session read, or a new one, with the message appended
WithMessage(session, message) ==
  [found |-> TRUE,
   messages |-> Append((IF session.found THEN session ELSE ChatSession).messages, message)]

\* lines 79-88: a new session if none was read, the message appended to the
\* copy read, and save_session writes the copy under the key (setex)
save_session(c) ==
  /\ calls[c].at = "save"
  /\ store' = WithMessage(calls[c].session, calls[c].message)
  /\ calls' = [calls EXCEPT ![c].at = "done", ![c].session = store']
  /\ UNCHANGED chunker

RedisNext ==
  \/ \E role \in Roles, content \in Contents : AddMessage(role, content)
  \/ \E c \in 1..Len(calls) : get_session(c)
  \/ \E c \in 1..Len(calls) : save_session(c)

RedisSpec == RedisInit /\ [][RedisNext]_vars

----------------------------------------------------------------------------
(* Properties *)

\* the stripped text of the i-th section of the walk
SectionText(i) == Strip(sections[i].text)

\* the i-th section passes line 99 and normalisation marks it invalid
InvalidSection(i) ==
  Len(SectionText(i)) >= 20 /\ ~normalize_text(SectionText(i)).valid

\* C1: every chunk of the returned list has is_valid = TRUE, and so has every
\* chunk collected on the way: a segment, a flushed buffer or a sub-piece that
\* normalisation marks invalid never becomes a chunk.
C1_ReturnedChunksValid ==
  /\ \A i \in 1..Len(valid_chunks) : valid_chunks[i].is_valid
  /\ \A i \in 1..Len(chunks) : chunks[i].is_valid

\* a run that skipped an invalid section and still returned chunks
C1_InvalidSectionSkipped ==
  /\ pc = "done"
  /\ valid_chunks # <<>>
  /\ \E i \in 1..Len(sections) : InvalidSection(i)

\* the invalidation marker "(l<schwa><gbreve>v edilib)" occurs in t
HasMarker(t) ==
  AllStarts(LitI(<<"(", "l", "schwa", "gbreve", "v", " ", "e", "d", "i", "l", "i", "b", ")">>),
            FoldText(t)) # {}

\* the segments of the input document as given: the segmentation of lines
\* 64-89 applied to the text argument
RawSegments == SectionsOf(raw, ChunkSize)

\* C2: when a segment of the input document contains the marker
\* "(l<schwa><gbreve>v edilib)", no returned chunk is derived from that
\* segment: no returned chunk holds the segment's text.
C2_MarkedSegmentExcluded ==
  pc = "done" =>
    \A k \in 1..Len(RawSegments) :
      HasMarker(RawSegments[k].text) =>
        \A i \in 1..Len(valid_chunks) :
          valid_chunks[i].content # normalize_text(RawSegments[k].text).clean

\* C3 as stated: a non-empty input text yields at least one chunk.
C3_NonEmptyYieldsChunk == pc = "done" /\ raw # <<>> => valid_chunks # <<>>

\* the i-th section passes line 99, is valid and matches a heading pattern
HeadingSection(i) ==
  /\ Len(SectionText(i)) >= 20
  /\ normalize_text(SectionText(i)).valid
  /\ match_patterns(normalize_text(SectionText(i)).clean, all_patterns) # None

\* the normalised document is one heading-free piece of 50 to chunk_size
\* characters that normalize_text leaves unchanged and valid
SingleContent ==
  /\ normalize_text(text) = [clean |-> text, valid |-> TRUE]
  /\ match_patterns(text, all_patterns) = None
  /\ Len(text) >= 50
  /\ Len(text) <= ChunkSize

\* C3 (amended): at least one chunk is returned when some section of the walk
\* is a valid heading of at least 20 characters; and a heading-free normalised
\* text of 50 to chunk_size characters that normalisation leaves unchanged
\* yields exactly one chunk, of type content, holding that text.
C3_ChunkGuarantee ==
  pc = "done" =>
    /\ (\E i \in 1..Len(sections) : HeadingSection(i)) => valid_chunks # <<>>
    /\ SingleContent =>
         /\ Len(valid_chunks) = 1
         /\ valid_chunks[1].chunk_type = ContentType
         /\ valid_chunks[1].content = text

\* a heading-free document of exactly 50 characters came back as one content chunk
C3_SingleContentReturned ==
  pc = "done" /\ SingleContent /\ Len(text) = 50 /\ Len(valid_chunks) = 1

\* the returned chunks of type content
ContentIndexes == {i \in 1..Len(valid_chunks) : valid_chunks[i].chunk_type = ContentType}

\* C4: every returned chunk of type content has at least 50 characters of
\* content, whether the buffer was emitted whole or as re-split sub-pieces.
C4_ContentMinLength ==
  \A i \in ContentIndexes : Len(valid_chunks[i].content) >= 50

\* a run whose buffer was re-split: two content sub-pieces of one buffer were
\* returned, and the buffer held more than chunk_size characters
C4_SubPiecesReturned ==
  /\ pc = "done"
  /\ \E i, j \in ContentIndexes :
       /\ i < j
       /\ valid_chunks[i].src = valid_chunks[j].src
       /\ Len(valid_chunks[i].content) + Len(valid_chunks[j].content) > ChunkSize

\* C5: the returned chunks are in source order: a chunk earlier in the list
\* was built from text that starts at an equal or earlier offset of the
\* normalised document, and the sub-pieces of one buffer keep the order
\* split_text gave them.
C5_SourceOrder ==
  \A i, j \in 1..Len(valid_chunks) :
    i < j =>
      /\ valid_chunks[i].src <= valid_chunks[j].src
      /\ valid_chunks[i].src = valid_chunks[j].src =>
           valid_chunks[i].piece < valid_chunks[j].piece

\* a content chunk flushed by a heading was returned right before that
\* heading's chunk
C5_FlushedBeforeHeading ==
  /\ pc = "done"
  /\ \E i \in 1..(Len(valid_chunks) - 1) :
       /\ valid_chunks[i].chunk_type = ContentType
       /\ valid_chunks[i + 1].chunk_type # ContentType
       /\ valid_chunks[i].src < valid_chunks[i + 1].src

\* C6: normalize_text is idempotent on its cleaned text: normalising the clean
\* text of the document again returns the same clean text.
C6_NormalizeIdempotent ==
  pc # "normalize" => normalize_text(text).clean = text

\* the positions up to pos where a heading of the given patterns starts in the
\* normalised document
HeadingsUpTo(patterns, pos) ==
  {p \in MatchStarts(FoldText(text), patterns) : p <= pos}

\* the labels a heading at position p can give: group(1) of a pattern matching there
LabelsAt(patterns, p) ==
  {Slice(text, p, MatchEnd(patterns[k], FoldText(text), p)) :
     k \in {k \in 1..Len(patterns) : MatchEnd(patterns[k], FoldText(text), p) # 0}}

\* the label is that of the last heading at or before pos, when there is one
CarriesLabel(label, patterns, pos) ==
  HeadingsUpTo(patterns, pos) # {} =>
    label \in LabelsAt(patterns, SetMax(HeadingsUpTo(patterns, pos)))

\* C7: after a chapter heading in the document every chunk produced from later
\* text carries that chapter label until a new chapter heading appears, and
\* after a section heading every later chunk carries that section label until
\* a new section heading appears.
C7_LabelsPersist ==
  pc = "done" =>
    \A i \in 1..Len(valid_chunks) :
      /\ CarriesLabel(valid_chunks[i].chapter, chapter_patterns, valid_chunks[i].src)
      /\ CarriesLabel(valid_chunks[i].section, section_patterns, valid_chunks[i].src)

\* the positions of the "Maddə N" headings of the normalised document, in order
ArticleHeadings == SortSet(MatchStarts(FoldText(text), <<article_patterns[1]>>))

\* the number of the "Maddə N" heading that starts at position p
HeadingNumber(p) ==
  extract_article_number(Slice(text, p, MatchEnd(article_patterns[1], FoldText(text), p)))

\* the returned chunks of type article, in order
ArticleChunks == SelectSeq(valid_chunks, LAMBDA c : c.chunk_type = ArticleType)

\* C8: a document of n >= 2 article headings (and no chapter or section
\* heading) yields exactly n chunks of type article, one per heading in
\* order, whose sub_article is that heading's number; for
\* "Maddə 1. Content A. Maddə 2. Content B." these are two article chunks with
\* sub_article "1" and "2".
C8_ArticleChunkPerHeading ==
  (/\ pc = "done"
   /\ Len(ArticleHeadings) >= 2
   /\ MatchStarts(FoldText(text), chapter_patterns \o section_patterns) = {})
  => /\ Len(ArticleChunks) = Len(ArticleHeadings)
     /\ \A i \in 1..Len(ArticleChunks) :
          /\ ArticleChunks[i].src = ArticleHeadings[i]
          /\ ArticleChunks[i].sub_article = HeadingNumber(ArticleHeadings[i])
     /\ raw = SpecExampleBlock =>
          /\ ArticleChunks[1].sub_article = <<"1">>
          /\ ArticleChunks[2].sub_article = <<"2">>

\* the input has no recognisable heading: no heading pattern matches the
\* normalised document, nor any section of the walk after its normalisation
NoHeading ==
  /\ MatchStarts(FoldText(text), all_patterns) = {}
  /\ \A i \in 1..Len(sections) :
       Len(SectionText(i)) >= 20 =>
         match_patterns(normalize_text(SectionText(i)).clean, all_patterns) = None

\* every returned chunk is of type content and holds at most chunk_size characters
ContentWithinSize ==
  \A i \in 1..Len(valid_chunks) :
    /\ valid_chunks[i].chunk_type = ContentType
    /\ Len(valid_chunks[i].content) <= ChunkSize

\* C9: for an input with no recognisable heading and length greater than
\* chunk_size, more than one chunk is returned, all of type content, each with
\* content length at most chunk_size.
C9_MultipleContentChunks ==
  (pc = "done" /\ NoHeading /\ Len(raw) > ChunkSize) =>
    Len(valid_chunks) > 1 /\ ContentWithinSize

\* C9 (amended): for an input with no recognisable heading and length greater
\* than chunk_size, every returned chunk is of type content and has content
\* length at most chunk_size; one chunk or none may be returned.
C9_ContentChunksWithinSize ==
  (pc = "done" /\ NoHeading /\ Len(raw) > ChunkSize) => ContentWithinSize

\* a heading-free input longer than chunk_size whose buffer was re-split came
\* back as a single content sub-piece
C9_OneSubPieceReturned ==
  /\ pc = "done"
  /\ NoHeading
  /\ Len(raw) > ChunkSize
  /\ Len(valid_chunks) = 1
  /\ valid_chunks[1].piece > 0

\* the metadata of chunk c holds the two keys of a hierarchy level exactly when
\* the field of that level is present, both with the value of the field
LevelKeys(c, field, key, context_key) ==
  IF field # None
  THEN /\ {key, context_key} \subseteq DOMAIN c.metadata
       /\ c.metadata[key] = field
       /\ c.metadata[context_key] = field
  ELSE {key, context_key} \cap DOMAIN c.metadata = {}

\* the metadata of chunk c is a map of non-empty strings with the four fixed
\* keys and the keys of the hierarchy levels that are present
MetadataComplete(c) ==
  /\ \A k \in DOMAIN c.metadata : c.metadata[k] # None /\ c.metadata[k] # <<>>
  /\ {"law_code", "law_name_az", "law_name_en", "chunk_type"} \subseteq DOMAIN c.metadata
  /\ LevelKeys(c, c.chapter, "chapter", "chapter_context")
  /\ LevelKeys(c, c.section, "section", "section_context")
  /\ LevelKeys(c, c.article, "article", "article_context")

\* C10: for every returned chunk the metadata map has only non-empty string
\* values and never a None; it always holds law_code, law_name_az, law_name_en
\* and chunk_type, and it holds chapter/chapter_context (section/
\* section_context, article/article_context) exactly when the chunk's chapter
\* (section, article) is present, with a value equal to that field.
C10_MetadataNoPlaceholders ==
  /\ \A i \in 1..Len(chunks) : MetadataComplete(chunks[i])
  /\ \A i \in 1..Len(valid_chunks) : MetadataComplete(valid_chunks[i])

\* a returned chunk that has an article but no chapter, after a returned chunk
\* that has a chapter but no section
C10_MixedLevelsReturned ==
  /\ pc = "done"
  /\ \E i, j \in 1..Len(valid_chunks) :
       /\ valid_chunks[i].chapter # None /\ valid_chunks[i].section = None
       /\ valid_chunks[j].chapter = None /\ valid_chunks[j].article # None

\* the segments of the normalised document come from the Fallback Splitter
FallbackTaken == Cardinality(MatchStarts(FoldText(text), all_patterns)) < 2

\* how far the call is from its return: the phases left, then the sections left
PhasesLeft ==
  CASE pc = "normalize" -> 3 [] pc = "split" -> 2 [] pc = "walk" -> 1 [] OTHER -> 0

SectionsLeft == Len(sections) + 1 - idx

\* C11: on a chunker built with a valid configuration, extract_legal_structure
\* never raises and terminates with its list, for every input (the empty and
\* the whitespace-only document, documents without heading or with one
\* boundary, which go through the Fallback Splitter, included): every step
\* is not a raise and brings the call nearer to its return (a phase is left,
\* or one section fewer is left to walk and none is added).
C11_ReturnsWithoutRaising ==
  [][/\ pc' # "raised"
     /\ pc' \in {"split", "walk", "done"}
     /\ \/ PhasesLeft' < PhasesLeft
        \/ /\ PhasesLeft' = PhasesLeft
           /\ sections' = sections
           /\ SectionsLeft' < SectionsLeft
           /\ SectionsLeft' >= 0]_vars

\* the call returned for the empty or the whitespace-only document, having
\* taken the Fallback Splitter
C11_FallbackRunReturned ==
  /\ pc = "done"
  /\ FallbackTaken
  /\ raw \in {EmptyDocument, WhitespaceDocument}

\* C12: _fallback_split returns at least one non-empty segment for every
\* non-empty input text, whichever of its three tiers produces the result.
C12_FallbackSegmentNonEmpty ==
  (pc = "fallback_done" /\ raw # <<>>) =>
    \E i \in 1..Len(sections) : sections[i].text # <<>>

\* C13: calls of extract_legal_structure share no mutable state: two calls on
\* one LegalChunker for different documents, interleaved in any way, each
\* return exactly the list they return when run alone, and no step of a call
\* changes the other call's labels, buffer or chunks, nor the instance.
C13_InterleavedAsAlone ==
  /\ (mode = "together" /\ pc = "done" /\ suspended.pc = "done") =>
       /\ valid_chunks = alone[turn]
       /\ suspended.valid_chunks = alone[3 - turn]
  /\ chunk_size = ChunkSize /\ chunk_overlap = ChunkOverlap

\* the two calls are both in the middle of their walks, the running one under
\* a chapter and the other one under none, each with chunks of its own
C13_BothWalking ==
  /\ mode = "together"
  /\ pc = "walk" /\ suspended.pc = "walk"
  /\ idx > 1 /\ suspended.idx > 1
  /\ current_chapter # None /\ suspended.current_chapter = None
  /\ chunks # <<>> /\ suspended.chunks # <<>>

\* chunk_size and chunk_overlap are positive and chunk_overlap < chunk_size
ValidConfiguration ==
  chunk_size > 0 /\ chunk_overlap > 0 /\ chunk_overlap < chunk_size

\* C14: constructing a LegalChunker with an invalid configuration
\* (chunk_overlap >= chunk_size, or a non-positive chunk_size or
\* chunk_overlap) is rejected at construction time, so that no call of
\* extract_legal_structure runs with such a configuration.
C14_InvalidConfigurationRejected ==
  pc \notin {"construct", "rejected"} => ValidConfiguration

\* the content text a flush of the buffer works on (lines 283-284)
FlushText == normalize_text(JoinLines(content_buffer))

\* this step flushes a buffer whose text is valid and longer than chunk_size,
\* so that it is re-split (line 290)
ResplitStep ==
  /\ content_buffer # <<>>
  /\ content_buffer' = <<>> \/ pc' = "done"
  /\ FlushText.valid
  /\ Len(FlushText.clean) > chunk_size

\* the sub-chunks of the re-split (line 291)
FlushSubChunks == split_text(FlushText.clean, chunk_size, chunk_overlap)

\* the sub-chunks that line 294 keeps
SurvivingOf(sub) ==
  {i \in 1..Len(sub) :
     /\ normalize_text(sub[i]).valid
     /\ Len(normalize_text(sub[i]).clean) > 50}

SurvivingSubChunks == SurvivingOf(FlushSubChunks)

ContentCount(cs) == Cardinality({i \in 1..Len(cs) : cs[i].chunk_type = ContentType})

CeilDiv(a, b) == (a + b - 1) \div b

SubChunksWithinSize == \A i \in 1..Len(FlushSubChunks) : Len(FlushSubChunks[i]) <= chunk_size

\* C15: when a flushed content text of length L exceeds chunk_size S with
\* overlap O, the re-split produces ceil((L - O) / (S - O)) sub-chunks, each
\* of length at most S, and one content chunk is emitted per sub-chunk.
C15_SubChunkCount ==
  [][ResplitStep =>
       /\ Len(FlushSubChunks) =
            CeilDiv(Len(FlushText.clean) - chunk_overlap, chunk_size - chunk_overlap)
       /\ SubChunksWithinSize
       /\ ContentCount(chunks') - ContentCount(chunks) = Len(FlushSubChunks)]_vars

\* C15 (amended): when a flushed content text of length L exceeds chunk_size
\* S, the re-split produces at least two sub-chunks, each of length at most
\* S, and one content chunk is emitted per sub-chunk that normalisation
\* leaves valid and longer than 50 characters.
C15_SubChunksBounded ==
  [][ResplitStep =>
       /\ Len(FlushSubChunks) >= 2
       /\ SubChunksWithinSize
       /\ ContentCount(chunks') - ContentCount(chunks) =
            Cardinality(SurvivingSubChunks)]_vars

\* a second sub-chunk of a re-split buffer was returned as a content chunk
C15_SecondSubChunkReturned ==
  /\ pc = "done"
  /\ \E i \in 1..Len(valid_chunks) :
       valid_chunks[i].chunk_type = ContentType /\ valid_chunks[i].piece >= 2

\* the labels of the walk
Context == <<current_chapter, current_section, current_article>>

\* the labels of a chunk
ChunkContext(c) == <<c.chapter, c.section, c.article>>

\* C16: every content chunk carries the chapter, section and article labels
\* that were current when its buffered segments were read, the context before
\* the heading that triggered the flush: the content chunks a step appends
\* carry the labels of before the step, and the labels do not change while
\* segments stay in the buffer.
C16_ContentUnderBufferedContext ==
  [][/\ \A i \in (Len(chunks) + 1)..Len(chunks') :
          chunks'[i].chunk_type = ContentType => ChunkContext(chunks'[i]) = Context
     /\ (content_buffer # <<>> /\ content_buffer' # <<>>) => Context' = Context]_vars

\* a content chunk without chapter label is directly followed by the chunk of
\* the chapter heading that flushed it
C16_FlushedByChapter ==
  /\ pc = "done"
  /\ \E i \in 1..(Len(valid_chunks) - 1) :
       /\ valid_chunks[i].chunk_type = ContentType
       /\ valid_chunks[i].chapter = None
       /\ valid_chunks[i + 1].chunk_type = ChapterType
       /\ valid_chunks[i + 1].chapter # None

\* chunk c has no article label and no article key in its metadata
NoArticle(c) ==
  /\ c.article = None
  /\ {"article", "article_context", "article_number", "article_reference"}
       \cap DOMAIN c.metadata = {}

\* the chunk of the last heading before the i-th chunk is that of a chapter
\* or a section
AfterChapterOrSection(i) ==
  \E j \in 1..(i - 1) :
    /\ chunks[j].chunk_type \in {ChapterType, SectionType}
    /\ \A k \in (j + 1)..(i - 1) : chunks[k].chunk_type = ContentType

\* C17: a chapter or a section segment resets the current article to absent:
\* the chapter or section chunk itself, and every content chunk produced from
\* the text between that heading and the next article heading, carry no
\* article label and no article keys in their metadata.
C17_HeadingClearsArticle ==
  \A i \in 1..Len(chunks) :
    /\ chunks[i].chunk_type \in {ChapterType, SectionType} => NoArticle(chunks[i])
    /\ (chunks[i].chunk_type = ContentType /\ AfterChapterOrSection(i)) =>
         NoArticle(chunks[i])

\* an article chunk, then a chapter or section chunk, then a content chunk
\* were returned
C17_ContentAfterClearedArticle ==
  /\ pc = "done"
  /\ \E i \in 1..(Len(valid_chunks) - 2) :
       /\ valid_chunks[i].chunk_type = ArticleType
       /\ valid_chunks[i + 1].chunk_type \in {ChapterType, SectionType}
       /\ valid_chunks[i + 2].chunk_type = ContentType

\* the i-th section contains a heading
SectionHasHeading(i) == match_patterns(SectionText(i), all_patterns) # None

\* C18: a segment that normalisation marks invalid has no effect on the walk:
\* the current chapter, section and article labels, the content buffer and
\* the list of emitted chunks are unchanged by it (it is not buffered and
\* triggers no flush), even when the segment contains a heading.
C18_InvalidSegmentNoEffect ==
  [][(pc = "walk" /\ idx <= Len(sections) /\ InvalidSection(idx)) =>
       /\ idx' = idx + 1
       /\ UNCHANGED <<current_chapter, current_section, current_article,
                      content_buffer, chunks>>]_vars

\* the walk has just passed an invalid section that contains a heading, after
\* it had emitted a chunk
C18_InvalidHeadingPassed ==
  /\ pc = "walk"
  /\ idx > 1
  /\ InvalidSection(idx - 1)
  /\ SectionHasHeading(idx - 1)
  /\ chunks # <<>>

\* the boundaries found in the normalised document
Boundaries == MatchStarts(FoldText(text), all_patterns)

\* the start of the text and the boundaries, in order
Cuts == SortSet({1} \cup Boundaries)

\* the text from the i-th cut to the next one, or to the end
CutSlice(i) ==
  Strip(Slice(text, Cuts[i], IF i < Len(Cuts) THEN Cuts[i + 1] ELSE Len(text) + 1))

\* C19: when at least two boundaries are found, the segments walked cover the
\* whole normalised text: the text before the first boundary, the text
\* between each pair of consecutive boundaries and the text after the last
\* boundary are one segment each, so that no part of the document is left out.
C19_SegmentsCoverText ==
  (pc \in {"walk", "done"} /\ Cardinality(Boundaries) >= 2) =>
    [i \in 1..Len(sections) |-> sections[i].text]
      = SelectSeq([i \in 1..Len(Cuts) |-> CutSlice(i)], LAMBDA s : s # <<>>)

\* the boundary of B after position p, or the end of the text
NextCut(B, p) ==
  IF \E b \in B : b > p THEN SetMin({b \in B : b > p}) ELSE Len(text) + 1

\* the sections are the slices that start at the boundaries B: each section
\* is the stripped text from a boundary to the next, and each boundary whose
\* slice is longer than 20 characters has its section
BoundarySlices(B) ==
  /\ \A i \in 1..Len(sections) :
       /\ sections[i].start \in B
       /\ sections[i].text = Strip(Slice(text, sections[i].start,
                                         NextCut(B, sections[i].start)))
  /\ \A b \in B :
       Len(Strip(Slice(text, b, NextCut(B, b)))) > 20 =>
         \E i \in 1..Len(sections) : sections[i].start = b

\* the sections are the windows of the Fallback Splitter: consecutive pieces
\* of at most chunk_size characters that make up the text
FallbackWindows ==
  /\ \A i \in 1..Len(sections) :
       /\ sections[i].start = (i - 1) * chunk_size + 1
       /\ Len(sections[i].text) <= chunk_size
  /\ Concat([i \in 1..Len(sections) |-> sections[i].text]) = text

\* the sections fit the boundaries B
SectionsFit(B) ==
  IF Cardinality(B) >= 2 THEN BoundarySlices(B) ELSE FallbackWindows

\* C20: the segments come from the Fallback Splitter exactly when fewer than
\* 2 distinct boundary offsets are found; with 2 or more distinct offsets
\* they are the boundary-delimited slices; several pattern matches at the
\* same offset count as one boundary.
C20_FallbackBelowTwoBoundaries ==
  pc \in {"walk", "done"} => SectionsFit(Boundaries)

\* two patterns match at the one boundary of the document, which is not at
\* its start, and the sections are the windows from the start of the text
C20_TwoMatchesOneBoundary ==
  /\ pc = "walk"
  /\ Cardinality(Boundaries) = 1
  /\ Cardinality(Matches(FoldText(text), all_patterns)) >= 2
  /\ 1 \notin Boundaries
  /\ sections # <<>>
  /\ sections[1].start = 1

\* a pattern of the family matches somewhere in t
FamilyMatches(t, patterns) == MatchStarts(FoldText(t), patterns) # {}

\* the section of this round of the walk passes lines 98-107 and is classified
ClassifiedSection ==
  /\ pc = "walk"
  /\ idx <= Len(sections)
  /\ Len(SectionText(idx)) >= 20
  /\ normalize_text(SectionText(idx)).valid

\* the step appends the chunk of a heading of the given type for segment n
HeadingAppended(n, type) ==
  /\ Len(chunks') > Len(chunks)
  /\ chunks'[Len(chunks')].chunk_type = type
  /\ chunks'[Len(chunks')].content = n
  /\ content_buffer' = <<>>

\* segment n is classified in the order chapter, section, article, content
ClassifiedInOrder(n) ==
  IF FamilyMatches(n, chapter_patterns) THEN HeadingAppended(n, ChapterType)
  ELSE IF FamilyMatches(n, section_patterns) THEN HeadingAppended(n, SectionType)
  ELSE IF FamilyMatches(n, article_patterns) THEN HeadingAppended(n, ArticleType)
  ELSE content_buffer' = Append(content_buffer, n) /\ chunks' = chunks

\* C21: a segment is classified by testing the families in the fixed order
\* chapter, section, article and stopping at the first family that matches
\* anywhere in the segment: a segment matching a chapter pattern yields a
\* chapter chunk even if an article or section pattern matches at an earlier
\* offset in it, a segment matching section and article patterns yields a
\* section chunk, and a segment matching no family is buffered as content.
C21_ClassifiedByFamilyOrder ==
  [][ClassifiedSection =>
       ClassifiedInOrder(normalize_text(SectionText(idx)).clean)]_vars

\* the first heading of chunk c that a pattern of the family matches
FirstHeading(c, patterns) == SetMin(MatchStarts(FoldText(c.content), patterns))

\* a chapter chunk was returned whose text holds an article heading before
\* its chapter heading
C21_ChapterAfterArticleHeading ==
  /\ pc = "done"
  /\ \E i \in 1..Len(valid_chunks) :
       /\ valid_chunks[i].chunk_type = ChapterType
       /\ FamilyMatches(valid_chunks[i].content, article_patterns)
       /\ FirstHeading(valid_chunks[i], article_patterns)
            < FirstHeading(valid_chunks[i], chapter_patterns)

\* the newlines of t, each a break <<first, last>> between two lines
LineBreaks(t) == {<<i, i>> : i \in {j \in 1..Len(t) : t[j] = "\n"}}

\* the maximal runs of whitespace of t, as <<first, last>>
BlankRuns(t) ==
  {r \in (1..Len(t)) \X (1..Len(t)) :
     /\ r[1] <= r[2]
     /\ \A i \in r[1]..r[2] : t[i] \in Space
     /\ r[1] = 1 \/ t[r[1] - 1] \notin Space
     /\ r[2] = Len(t) \/ t[r[2] + 1] \notin Space}

\* the newlines of the run r
NewlinesIn(t, r) == {i \in r[1]..r[2] : t[i] = "\n"}

\* the blank lines of t: in each run of whitespace with two newlines or more,
\* the text from its first to its last newline
ParagraphBreaks(t) ==
  {<<SetMin(NewlinesIn(t, r)), SetMax(NewlinesIn(t, r))>> :
     r \in {q \in BlankRuns(t) : Cardinality(NewlinesIn(t, q)) >= 2}}

\* the k-th break, in the order of the text
BreakAt(breaks, k) ==
  CHOOSE b \in breaks : Cardinality({c \in breaks : c[1] < b[1]}) = k - 1

\* the pieces of t between the breaks
PiecesBetween(t, breaks) ==
  [k \in 1..(Cardinality(breaks) + 1) |->
     Slice(t, IF k = 1 THEN 1 ELSE BreakAt(breaks, k - 1)[2] + 1,
              IF k = Cardinality(breaks) + 1 THEN Len(t) + 1
              ELSE BreakAt(breaks, k)[1])]

\* the consecutive windows of n characters of t, the last possibly shorter
AllWindows(t, n) ==
  [i \in 1..CeilDiv(Len(t), n) |->
     Slice(t, (i - 1) * n + 1, (IF i * n < Len(t) THEN i * n ELSE Len(t)) + 1)]

\* the texts of the segments
SegmentTexts == [i \in 1..Len(sections) |-> sections[i].text]

\* the tier of _fallback_split: the paragraphs when there are 5 or more, else
\* the lines when there are 5 or more, else the given windows
TierOf(paragraphs, lines, windows) ==
  IF Len(paragraphs) >= 5 THEN paragraphs
  ELSE IF Len(lines) >= 5 THEN lines
  ELSE windows

\* C22: _fallback_split returns the blank-line-delimited paragraphs when
\* there are at least 5 of them, otherwise the single-newline-delimited lines
\* when there are at least 5 of them, otherwise consecutive non-overlapping
\* windows of chunk_size characters (the last possibly shorter) taken in
\* order from offset 0, whose concatenation is the input text.
C22_FallbackTiers ==
  pc = "fallback_done" =>
    /\ SegmentTexts = TierOf(PiecesBetween(raw, ParagraphBreaks(raw)),
                             PiecesBetween(raw, LineBreaks(raw)),
                             AllWindows(raw, chunk_size))
    /\ (Len(PiecesBetween(raw, ParagraphBreaks(raw))) < 5
          /\ Len(PiecesBetween(raw, LineBreaks(raw))) < 5) =>
         Concat(SegmentTexts) = raw

\* C22 (amended): as C22, but the third tier returns only the windows that
\* hold a character other than whitespace, so that their concatenation is
\* the input text when no window is blank.
C22_FallbackTiersNonBlankWindows ==
  pc = "fallback_done" =>
    /\ SegmentTexts = TierOf(PiecesBetween(raw, ParagraphBreaks(raw)),
                             PiecesBetween(raw, LineBreaks(raw)),
                             SelectSeq(AllWindows(raw, chunk_size),
                                       LAMBDA w : \E i \in 1..Len(w) : w[i] \notin Space))
    /\ (/\ Len(PiecesBetween(raw, ParagraphBreaks(raw))) < 5
        /\ Len(PiecesBetween(raw, LineBreaks(raw))) < 5
        /\ \A k \in 1..Len(AllWindows(raw, chunk_size)) :
             \E i \in 1..Len(AllWindows(raw, chunk_size)[k]) :
               AllWindows(raw, chunk_size)[k][i] \notin Space) =>
         Concat(SegmentTexts) = raw

\* the third tier returned windows and left a blank window out
C22_BlankWindowLeftOut ==
  /\ pc = "fallback_done"
  /\ Len(PiecesBetween(raw, LineBreaks(raw))) < 5
  /\ sections # <<>>
  /\ Len(sections) < Len(AllWindows(raw, chunk_size))

\* the positions of t where the word w stands
Positions(w, t) ==
  {i \in 1..(Len(t) - Len(w) + 1) : SubSeq(t, i, i + Len(w) - 1) = w}

\* the markers of a repealed provision
MarkerWords ==
  {<<"[", "l", "schwa", "gbreve", "v", " ", "e", "d", "i", "l", "i", "b", "]">>,
   <<"[", "m", "schwa", "t", "n", " ", "l", "schwa", "gbreve", "v", " ", "e", "d", "i", "l", "i", "b", "]">>,
   <<"(", "l", "schwa", "gbreve", "v", " ", "e", "d", "i", "l", "i", "b", ")">>,
   <<"q", "uuml", "v", "v", "schwa", "d", "schwa", "n", " ", "d", "uuml", "scedil", "uuml", "b">>,
   <<"q", "uuml", "v", "v", "schwa", "d", "schwa", "n", " ", "d", "uuml", "scedil", "m", "uuml", "scedil", "d", "uuml", "r">>,
   <<"q", "uuml", "v", "v", "schwa", "d", "schwa", "n", " ", "ccedil", "idotless", "x", "a", "r", "idotless", "l", "idotless", "b">>,
   <<"l", "schwa", "gbreve", "v", " ", "o", "l", "u", "n", "u", "b">>}

\* t holds the word open, later the word close, and between them only
\* characters other than those of the set barred, at least least of them
Encloses(t, open, close, barred, least) ==
  \E i \in Positions(open, t), j \in Positions(close, t) :
    /\ j >= i + Len(open) + least
    /\ \A k \in (i + Len(open))..(j - 1) : t[k] \notin barred

\* ft, a text in lower case, holds invalidation markup: a strikethrough
\* character, struck text between tildes, dashes or tags (the tags on one
\* line), a marker word or a line-drawing character
HoldsMarkup(ft) ==
  \/ \E i \in 1..Len(ft) :
       ft[i] \in {"strike", "solidus", "longsolidus", "cmb353", "cmb354", "cyr488",
                  "cyr489", "box1", "box2", "box3"}
  \/ Encloses(ft, <<"~", "~">>, <<"~", "~">>, {"~"}, 1)
  \/ Encloses(ft, <<"-", "-">>, <<"-", "-">>, {"-"}, 1)
  \/ Encloses(ft, <<"<", "s", "t", "r", "i", "k", "e", ">">>, <<"<", "/", "s", "t", "r", "i", "k", "e", ">">>, {"\n"}, 0)
  \/ Encloses(ft, <<"<", "s", ">">>, <<"<", "/", "s", ">">>, {"\n"}, 0)
  \/ Encloses(ft, <<"<", "d", "e", "l", ">">>, <<"<", "/", "d", "e", "l", ">">>, {"\n"}, 0)
  \/ \E w \in MarkerWords : Positions(FoldText(w), ft) # {}

\* the literal citation stands in t together with a line-drawing character
CitationWithLine(t) ==
  /\ Positions(<<"1", "7", ".", "2", ".", "3">>, t) # {}
  /\ \E i \in 1..Len(t) : t[i] \in {"box1", "box2", "box3"}

\* C23: detect_invalidated_text returns is_valid = false exactly when at
\* least one invalidation pattern matches somewhere in the input (or the
\* literal-citation special case applies), independent of where the match is
\* and of how much other text the input holds; otherwise it returns
\* is_valid = true.
C23_InvalidIffMarkupAnywhere ==
  pc = "detect_done" =>
    (detected.valid <=> ~(HoldsMarkup(FoldText(raw)) \/ CitationWithLine(raw)))

\* a text that begins with a letter and ends with a letter, with a marker
\* word between them, was found invalid
C23_MarkerInsideTextFound ==
  /\ pc = "detect_done"
  /\ raw # <<>>
  /\ raw[1] = "a"
  /\ raw[Len(raw)] = "a"
  /\ \E w \in MarkerWords : Positions(FoldText(w), FoldText(raw)) # {}
  /\ ~detected.valid

\* detect_invalidated_text without the literal-citation rule of lines 66-69
DetectedWithoutRule ==
  [clean |-> Strip(DropStrike(RemovePatterns(raw, invalidation_patterns, 1))),
   valid |-> NoPatternIn(FoldText(raw), invalidation_patterns)]

\* C29: the literal-citation special case ("17.2.3" together with a
\* line-drawing character) never changes the result of
\* detect_invalidated_text: whenever it applies, the general line-drawing
\* pattern has already set is_valid = false, so the function with the rule
\* and the function without it return the same (clean_text, is_valid) for
\* every input.
C29_SpecialCaseRedundant ==
  pc = "detect_done" =>
    /\ SpecialCase(raw) => ~NoPatternIn(FoldText(raw), invalidation_patterns)
    /\ detected = DetectedWithoutRule

\* the rule applied to a text whose citation comes before the line-drawing
\* character
C29_RuleApplied ==
  /\ pc = "detect_done"
  /\ CitationWithLine(raw)
  /\ raw[1] = "1"
  /\ ~detected.valid

\* this step flushes a non-empty buffer: the section of this round is
\* classified as a heading, or the walk is over
FlushingStep ==
  /\ pc = "walk"
  /\ content_buffer # <<>>
  /\ \/ idx > Len(sections)
     \/ /\ ClassifiedSection
        /\ FamilyMatches(normalize_text(SectionText(idx)).clean, all_patterns)

\* the texts of the content chunks this step appends
NewContent ==
  LET new == SelectSeq(SubSeq(chunks', Len(chunks) + 1, Len(chunks')),
                       LAMBDA c : c.chunk_type = ContentType)
  IN [i \in 1..Len(new) |-> new[i].content]

\* the normalised texts of the sub-chunks sub
SubPieceTexts(sub) == {normalize_text(sub[k]).clean : k \in 1..Len(sub)}

\* what a flush emits for the joined and normalised text t of the buffer:
\* nothing, the whole text, or sub-pieces of its re-split only
FlushEmits(t) ==
  IF ~t.valid \/ Len(t.clean) < 50 THEN NewContent = <<>>
  ELSE IF Len(t.clean) <= chunk_size THEN NewContent = <<t.clean>>
  ELSE /\ \A i \in 1..Len(NewContent) : NewContent[i] \in SubPieceTexts(FlushSubChunks)
       /\ t.clean \notin SubPieceTexts(FlushSubChunks)

\* C24: a flush of a non-empty buffer joins the buffered segments with a
\* newline and normalises the result; it emits nothing when that text is
\* invalid or shorter than 50 characters, exactly one content chunk holding
\* the whole text when its length is between 50 and chunk_size inclusive, and
\* only re-split sub-pieces when it is longer than chunk_size; after the
\* flush the buffer is empty.
C24_FlushEmptiesBuffer ==
  [][FlushingStep => FlushEmits(FlushText) /\ content_buffer' = <<>>]_vars

\* C24 (amended): as C24, but the buffer is empty after a flush that a
\* heading triggers; the final flush of lines 219-227 leaves the list as it
\* is, and the call returns.
C24_FlushBeforeHeadingEmptiesBuffer ==
  [][FlushingStep =>
       /\ FlushEmits(FlushText)
       /\ IF idx <= Len(sections) THEN content_buffer' = <<>>
          ELSE content_buffer' = content_buffer /\ pc' = "done"]_vars

\* a heading has just flushed a buffer as one content chunk that holds the
\* whole text
C24_WholeBufferFlushedAtHeading ==
  /\ pc = "walk"
  /\ content_buffer = <<>>
  /\ Len(chunks) >= 2
  /\ chunks[Len(chunks)].chunk_type # ContentType
  /\ chunks[Len(chunks) - 1].chunk_type = ContentType
  /\ Len(chunks[Len(chunks) - 1].content) \in 50..chunk_size
  /\ chunks[Len(chunks) - 1].src < chunks[Len(chunks)].src

\* the segments the document is cut into, trimmed, each with the position it
\* starts at: the slices at the boundaries B when there are two or more, the
\* windows of the Fallback Splitter otherwise
CandidateSegments(B) ==
  IF Cardinality(B) >= 2
  THEN {[start |-> b, text |-> Strip(Slice(text, b, NextCut(B, b)))] : b \in B}
  ELSE {[start |-> (i - 1) * chunk_size + 1,
         text |-> Strip(AllWindows(text, chunk_size)[i])] :
          i \in 1..Len(AllWindows(text, chunk_size))}

\* the segments that reach the classification: the sections of the walk that
\* pass the test of line 99
ConsideredSegments ==
  {[start |-> sections[i].start, text |-> SectionText(i)] :
     i \in {j \in 1..Len(sections) : Len(SectionText(j)) >= 20}}

\* every segment of 20 characters or more is considered, the others are not
ThresholdTwenty(candidates) ==
  \A c \in candidates : Len(c.text) >= 20 <=> c \in ConsideredSegments

\* C25: a segment is discarded before classification exactly when its
\* trimmed length is below the 20-character threshold; a segment of 20 or
\* more characters is always considered, with the same threshold on the
\* boundary-delimited path and on the Fallback Splitter path.
C25_SameThresholdOnBothPaths ==
  pc \in {"walk", "done"} => ThresholdTwenty(CandidateSegments(Boundaries))

\* the chunks this step appends that are not content chunks
NewStructural ==
  SelectSeq(SubSeq(chunks', Len(chunks) + 1, Len(chunks')),
            LAMBDA c : c.chunk_type # ContentType)

\* the segment of this round as the document holds it: the text from its
\* boundary to the next one (or a window of the Fallback Splitter), trimmed
SegmentInDocument(B) ==
  IF Cardinality(B) >= 2
  THEN Strip(Slice(text, sections[idx].start, NextCut(B, sections[idx].start)))
  ELSE Strip(AllWindows(text, chunk_size)[(sections[idx].start - 1) \div chunk_size + 1])

\* C26: a structural segment is never re-split: each segment classified as
\* chapter, section or article yields exactly one chunk whose content is the
\* whole normalised segment (the heading together with all text up to the
\* next boundary), whatever its length, so a structural chunk's content may
\* be longer than chunk_size.
C26_StructuralSegmentOneChunk ==
  [][(ClassifiedSection
        /\ FamilyMatches(normalize_text(SectionText(idx)).clean, all_patterns)) =>
       /\ Len(NewStructural) = 1
       /\ NewStructural[1] = chunks'[Len(chunks')]
       /\ NewStructural[1].content = normalize_text(SegmentInDocument(Boundaries)).clean]_vars

\* an article chunk longer than chunk_size was returned: its heading and the
\* text up to the next boundary
C26_LongArticleReturned ==
  /\ pc = "done"
  /\ \E i \in 1..Len(valid_chunks) :
       /\ valid_chunks[i].chunk_type = ArticleType
       /\ Len(valid_chunks[i].content) > chunk_size
       /\ valid_chunks[i].src + Len(valid_chunks[i].content) + 1
            \in Boundaries \cup {Len(text) + 1}

\* the section chunks up to the i-th chunk
SectionChunksUpTo(i) == {j \in 1..i : chunks[j].chunk_type = SectionType}

\* the label of the last section heading processed when the i-th chunk was
\* built
LastSectionLabel(i) ==
  IF SectionChunksUpTo(i) = {} THEN None
  ELSE chunks[SetMax(SectionChunksUpTo(i))].section

\* C27: a chapter transition leaves the current section unchanged: after a
\* new chapter heading, the chapter chunk itself and all later chunks still
\* carry the section label set under the previous chapter until a new
\* section heading is processed.
C27_ChapterKeepsSection ==
  /\ \A i \in 1..Len(chunks) : chunks[i].section = LastSectionLabel(i)
  /\ current_section = LastSectionLabel(Len(chunks))

\* a section chunk, then a chapter chunk and a later chunk that both carry
\* the label of that section were returned
C27_SectionKeptAcrossChapter ==
  /\ pc = "done"
  /\ \E i, j, k \in 1..Len(valid_chunks) :
       /\ i < j /\ j < k
       /\ valid_chunks[i].chunk_type = SectionType
       /\ valid_chunks[j].chunk_type = ChapterType
       /\ valid_chunks[j].section = valid_chunks[i].section
       /\ valid_chunks[k].section = valid_chunks[i].section
       /\ valid_chunks[i].section # None

\* C28: whenever extract_legal_structure uses the Fallback Splitter, the
\* segments it walks are the fixed-size windows of chunk_size characters:
\* because the document is normalised first and normalised text contains no
\* newline character, the paragraph tier and the line tier of _fallback_split
\* each yield a single piece and are never selected.
C28_FallbackWalksWindows ==
  (pc \in {"walk", "done"} /\ Cardinality(Boundaries) < 2) =>
    /\ \A i \in 1..Len(text) : text[i] # "\n"
    /\ Len(PiecesBetween(text, ParagraphBreaks(text))) = 1
    /\ Len(PiecesBetween(text, LineBreaks(text))) = 1
    /\ SegmentTexts = SelectSeq(AllWindows(text, chunk_size),
                                LAMBDA w : \E i \in 1..Len(w) : w[i] \notin Space)

\* a document of five paragraphs was walked as one window and returned as
\* one chunk
C28_ParagraphsWalkedAsWindow ==
  /\ pc = "done"
  /\ Len(PiecesBetween(raw, ParagraphBreaks(raw))) >= 5
  /\ Cardinality(Boundaries) < 2
  /\ Len(sections) = 1
  /\ Len(valid_chunks) = 1

\* the messages of the stored session
StoredMessages == store.messages

\* every call of add_message made so far has returned
AllCompleted == \A c \in 1..Len(calls) : calls[c].at = "done"

\* C30: no message is lost from a chat session: after any interleaving of
\* add_message calls on the same session_id that all complete, the stored
\* session's message list contains every message added, so n completed calls
\* grow the list by n.
C30_NoMessageLost ==
  AllCompleted =>
    /\ Len(StoredMessages) = Len(calls)
    /\ \A c \in 1..Len(calls) :
         \E i \in 1..Len(StoredMessages) : StoredMessages[i] = calls[c].message

=============================================================================
